---------------------------- MODULE Spec2Model ----------------------------
(***************************************************************************)
(* A model of the decoding core of speedtools:                             *)
(*   - the Refpack decompressor        (src/speedtools/refpack.py)         *)
(*   - the EA ADPCM decoder            (src/speedtools/decoders.py)        *)
(*   - the track file variant fallback (src/speedtools/track_data.py)      *)
(*   - the resource renaming           (src/speedtools/utils.py)           *)
(*   - the wall vertex raising         (src/speedtools/track_data.py)      *)
(*   - the track segment construction  (src/speedtools/frd_data.py)        *)
(*   - the engine audio table merge    (src/speedtools/viv_data.py)        *)
(*   - the BNK audio stream slicing    (parsers/bnk_audio_stream.py)       *)
(*   - the track object construction   (src/speedtools/frd_data.py)        *)
(*   - the FSH resource construction   (src/speedtools/fsh_data.py)        *)
(*   - the track lookup tables         (src/speedtools/track_data.py)      *)
(*   - the mesh operations             (src/speedtools/utils.py)           *)
(*   - the wall construction           (src/speedtools/track_data.py)      *)
(* Each component is a state machine of its own with its own               *)
(* specification (SpecRefpack, SpecAdpcm, SpecTrOpen, SpecResources,       *)
(* SpecRaise, SpecFrd, SpecMerge, SpecBnk, SpecObjects, SpecFsh,           *)
(* SpecTrack, SpecMesh, SpecWalls); the variables of the other             *)
(* components stay at their idle values.                                   *)
(***************************************************************************)
EXTENDS Integers, Sequences, FiniteSets, TLC

VARIABLES
    \* ---- Refpack (refpack.py) ----
    rp_input,            \* the bytes handed to Refpack.decode (never changed)
    expanded_length,     \* Refpack.expanded_length
    compressed_data,     \* the bytearray the generator consumes
    decompressed_data,   \* the output bytearray
    cmds,                \* history: every opcode decoded so far, with its bytes
    rp_pc,               \* "decode", "check", "returned", "raised"
    rp_error,            \* the exception raised ("" when none)
    \* ---- adpcm_to_s16le (decoders.py) ----
    stream,                  \* the argument stream (never changed)
    num_channels,            \* the argument num_channels
    ad_pc,                   \* "idle", "frame", "sample", "returned", "raised"
    ad_calls,                \* calls of adpcm_to_s16le started on this stream
    reader_pos,              \* position of the BytesIO reader
    frame,                   \* iterations of the frame loop completed
    iter,                    \* iterations of the sample loop completed
    current_left_sample,
    previous_left_sample,
    current_right_sample,
    previous_right_sample,
    coeffs,                  \* <<coeff1l, coeff2l, coeff1r, coeff2r>>
    shift_left,
    shift_right,
    output,                  \* the output bytes
    first_output,            \* history: what the first call returned
    \* ---- TrackData.tr_open (track_data.py) ----
    tr_files,                \* the variants whose file is in the directory
    tr_mirrored,             \* the arguments mirrored, night, weather
    tr_night,
    tr_weather,
    tr_pc,                   \* "idle", "loop", "returned", "raised"
    tr_idx,                  \* iterations of the loop over try_options done
    tr_result,               \* the variant whose constructed file was returned
    \* ---- unique_named_resources (utils.py) ----
    ur_input,                \* the resources the iterable yields
    ur_count,                \* the dict count of count_repeats_and_map
    ur_output,               \* the resources yielded so far
    \* ---- TrackData._raise_vertex (track_data.py) ----
    rv_heights,              \* the argument heights: <<location, height>> pairs
    rv_vertex,               \* the argument vertex (never changed)
    rv_pc,                   \* "idle", "call", "returned", "raised"
    rv_result,               \* the vertex returned
    \* ---- FrdData.track_segments (frd_data.py) ----
    frd,                     \* the parsed file: segments and road_blocks
    frd_pc,                  \* "idle", "iter", "stopped"
    frd_out,                 \* the TrackSegments yielded so far
    \* ---- VivData.engine_audio (viv_data.py) ----
    viv,                     \* the archive: entries present, samples, tables
    mt_pc,                   \* "idle", "call", "iter", "done", "raised"
    mt_out,                  \* the EngineAudio objects yielded so far
    mt_error,                \* the exception raised ("" when none)
    \* ---- BnkAudioStream (parsers/bnk_audio_stream.py) ----
    bnk_header,              \* the values of the header's TLVs
    bnk_stream,              \* bytes left in the stream
    bnk_pc,                  \* "idle", "init", "read", "raised"
    bnk_samples,             \* length of self.samples
    \* ---- FrdData.objects and TrackData.objects (frd_data.py, track_data.py) ----
    ob_frd,                  \* the parsed file: object_attributes and object headers
    ob_pc,                   \* "idle", "iter", "stopped"
    ob_made,                 \* the TrackObjects FrdData.objects has yielded
    ob_out,                  \* the TrackObjects TrackData.objects has yielded
    \* ---- FshData._make_resource (fsh_data.py) ----
    fsh_resource,            \* the argument: name and data blocks (never changed)
    fsh_pc,                  \* "idle", "call", "returned", "raised"
    fsh_result,              \* the Resource returned, in a list
    fsh_error,               \* the exception raised ("" when none)
    \* ---- TrackData lookup tables (track_data.py) ----
    td_files,                \* the files of the track: atlas, SFX pool, glows, stubs, bank
    resources,               \* self.resources, as a set of <<key, value>>
    sfx_resources,           \* self.sfx_resources, as a set of <<key, value>>
    light_glows,             \* self.light_glows, as a set of <<key, value>>
    td_inits,                \* history: calls of _init_resources so far
    td_calls,                \* history: lookups called so far
    td_last,                 \* the last lookup: operation, outcome and values
    \* ---- remove_unused_vertices and merge_mesh (utils.py) ----
    ms_a,                    \* the argument mesh (a of merge_mesh)
    ms_b,                    \* the argument b of merge_mesh
    ms_pc,                   \* "idle", "call", "removed", "merged"
    ms_result,               \* the mesh returned
    \* ---- TrackData.track_segments (track_data.py) ----
    ws_frd,             \* self.frd, the parsed file (never changed)
    ws_segments,        \* segments = list(self.frd.track_segments)
    ws_heights,              \* self.heights.heights
    ws_pc,                   \* "idle", "iter", "stopped", "raised"
    ws_out,                  \* the finalized TrackSegments yielded so far
    ws_error                 \* the exception raised ("" when none)

rp_vars == <<rp_input, expanded_length, compressed_data, decompressed_data,
             cmds, rp_pc, rp_error>>

ad_vars == <<stream, num_channels, ad_pc, ad_calls, reader_pos, frame, iter,
             current_left_sample, previous_left_sample,
             current_right_sample, previous_right_sample,
             coeffs, shift_left, shift_right, output, first_output>>

tr_vars == <<tr_files, tr_mirrored, tr_night, tr_weather, tr_pc, tr_idx,
             tr_result>>

ur_vars == <<ur_input, ur_count, ur_output>>

rv_vars == <<rv_heights, rv_vertex, rv_pc, rv_result>>

frd_vars == <<frd, frd_pc, frd_out>>

mt_vars == <<viv, mt_pc, mt_out, mt_error>>

bnk_vars == <<bnk_header, bnk_stream, bnk_pc, bnk_samples>>

ob_vars == <<ob_frd, ob_pc, ob_made, ob_out>>

fsh_vars == <<fsh_resource, fsh_pc, fsh_result, fsh_error>>

td_vars == <<td_files, resources, sfx_resources, light_glows, td_inits,
             td_calls, td_last>>

ms_vars == <<ms_a, ms_b, ms_pc, ms_result>>

ws_vars == <<ws_frd, ws_segments, ws_heights, ws_pc, ws_out, ws_error>>

vars == <<rp_vars, ad_vars, tr_vars, ur_vars, rv_vars, frd_vars, mt_vars,
          bnk_vars, ob_vars, fsh_vars, td_vars, ms_vars, ws_vars>>

\* what each component leaves alone
not_rp == <<ad_vars, tr_vars, ur_vars, rv_vars, frd_vars, mt_vars,
            bnk_vars, ob_vars, fsh_vars, td_vars, ms_vars, ws_vars>>

not_ad == <<rp_vars, tr_vars, ur_vars, rv_vars, frd_vars, mt_vars,
            bnk_vars, ob_vars, fsh_vars, td_vars, ms_vars, ws_vars>>

not_tr == <<rp_vars, ad_vars, ur_vars, rv_vars, frd_vars, mt_vars,
            bnk_vars, ob_vars, fsh_vars, td_vars, ms_vars, ws_vars>>

not_ur == <<rp_vars, ad_vars, tr_vars, rv_vars, frd_vars, mt_vars,
            bnk_vars, ob_vars, fsh_vars, td_vars, ms_vars, ws_vars>>

not_rv == <<rp_vars, ad_vars, tr_vars, ur_vars, frd_vars, mt_vars,
            bnk_vars, ob_vars, fsh_vars, td_vars, ms_vars, ws_vars>>

not_frd == <<rp_vars, ad_vars, tr_vars, ur_vars, rv_vars, mt_vars,
             bnk_vars, ob_vars, fsh_vars, td_vars, ms_vars, ws_vars>>

not_mt == <<rp_vars, ad_vars, tr_vars, ur_vars, rv_vars, frd_vars,
            bnk_vars, ob_vars, fsh_vars, td_vars, ms_vars, ws_vars>>

not_bnk == <<rp_vars, ad_vars, tr_vars, ur_vars, rv_vars, frd_vars,
             mt_vars, ob_vars, fsh_vars, td_vars, ms_vars, ws_vars>>

not_ob == <<rp_vars, ad_vars, tr_vars, ur_vars, rv_vars, frd_vars, mt_vars,
            bnk_vars, fsh_vars, td_vars, ms_vars, ws_vars>>

not_fsh == <<rp_vars, ad_vars, tr_vars, ur_vars, rv_vars, frd_vars,
             mt_vars, bnk_vars, ob_vars, td_vars, ms_vars, ws_vars>>

not_td == <<rp_vars, ad_vars, tr_vars, ur_vars, rv_vars, frd_vars, mt_vars,
            bnk_vars, ob_vars, fsh_vars, ms_vars, ws_vars>>

not_ms == <<rp_vars, ad_vars, tr_vars, ur_vars, rv_vars, frd_vars, mt_vars,
            bnk_vars, ob_vars, fsh_vars, td_vars, ws_vars>>

not_ws == <<rp_vars, ad_vars, tr_vars, ur_vars, rv_vars, frd_vars, mt_vars,
            bnk_vars, ob_vars, fsh_vars, td_vars, ms_vars>>

-----------------------------------------------------------------------------
(* Bounds of the model *)

MaxOps == 3          \* opcodes (with their literals) in a generated input
MaxCut == 2          \* bytes cut from the end of a generated input
MaxExpanded == 5     \* largest declared expanded_length
MaxFrames == 2       \* whole ADPCM frames in a generated stream
MaxTail == 2         \* bytes of a trailing partial ADPCM frame
MaxCalls == 2        \* calls of adpcm_to_s16le on one stream

-----------------------------------------------------------------------------
(* Integer helpers: Python's &, << and >> on unbounded integers *)

RECURSIVE BitAnd(_, _)
BitAnd(x, m) ==
    IF m = 0 THEN 0
    ELSE (x % 2) * (m % 2) + 2 * BitAnd(x \div 2, m \div 2)

Shl(x, n) == x * (2 ^ n)

Shr(x, n) == x \div (2 ^ n)

Take(s, n) == SubSeq(s, 1, IF n < Len(s) THEN n ELSE Len(s))

Drop(s, n) == SubSeq(s, (IF n < Len(s) THEN n ELSE Len(s)) + 1, Len(s))

RECURSIVE Flatten(_)
Flatten(ss) == IF ss = <<>> THEN <<>> ELSE Head(ss) \o Flatten(Tail(ss))

-----------------------------------------------------------------------------
(* The components not running in a specification *)

IdleAdpcm ==
    /\ stream = <<>>
    /\ num_channels = 1
    /\ ad_pc = "idle"
    /\ ad_calls = MaxCalls
    /\ reader_pos = 0
    /\ frame = 0
    /\ iter = 0
    /\ current_left_sample = 0
    /\ previous_left_sample = 0
    /\ current_right_sample = 0
    /\ previous_right_sample = 0
    /\ coeffs = <<0, 0, 0, 0>>
    /\ shift_left = 0
    /\ shift_right = 0
    /\ output = <<>>
    /\ first_output = <<>>

IdleTrOpen ==
    /\ tr_files = {}
    /\ tr_mirrored = FALSE
    /\ tr_night = FALSE
    /\ tr_weather = FALSE
    /\ tr_pc = "idle"
    /\ tr_idx = 0
    /\ tr_result = "none"

IdleResources ==
    /\ ur_input = <<>>
    /\ ur_count = <<>>
    /\ ur_output = <<>>

IdleRaise ==
    /\ rv_heights = <<>>
    /\ rv_vertex = <<>>
    /\ rv_pc = "idle"
    /\ rv_result = <<>>

IdleFrd ==
    /\ frd = <<>>
    /\ frd_pc = "idle"
    /\ frd_out = <<>>

IdleMerge ==
    /\ viv = <<>>
    /\ mt_pc = "idle"
    /\ mt_out = <<>>
    /\ mt_error = ""

IdleBnk ==
    /\ bnk_header = <<>>
    /\ bnk_stream = 0
    /\ bnk_pc = "idle"
    /\ bnk_samples = 0

IdleObjects ==
    /\ ob_frd = <<>>
    /\ ob_pc = "idle"
    /\ ob_made = <<>>
    /\ ob_out = <<>>

IdleFsh ==
    /\ fsh_resource = <<>>
    /\ fsh_pc = "idle"
    /\ fsh_result = <<>>
    /\ fsh_error = ""

IdleTrack ==
    /\ td_files = <<>>
    /\ resources = {}
    /\ sfx_resources = {}
    /\ light_glows = {}
    /\ td_inits = 0
    /\ td_calls = 0
    /\ td_last = <<>>

IdleMesh ==
    /\ ms_a = <<>>
    /\ ms_b = <<>>
    /\ ms_pc = "idle"
    /\ ms_result = <<>>

IdleWalls ==
    /\ ws_frd = <<>>
    /\ ws_segments = <<>>
    /\ ws_heights = <<>>
    /\ ws_pc = "idle"
    /\ ws_out = <<>>
    /\ ws_error = ""

-----------------------------------------------------------------------------
(* Refpack *)

IsStopAnyLiteralRun(cmd) == cmd.reflen = 0 /\ cmd.refdist = 0

IsStop(cmd) == cmd.proclen < 4 /\ cmd.reflen = 0 /\ cmd.refdist = 0

Decode2bCmd(opdata) ==
    LET a == opdata[1]
        b == opdata[2]
    IN  [proclen |-> BitAnd(a, 3),
         reflen  |-> Shr(BitAnd(a, 28), 2) + 3,
         refdist |-> Shl(BitAnd(a, 96), 3) + b + 1]

Decode3bCmd(opdata) ==
    LET a == opdata[1]
        b == opdata[2]
        c == opdata[3]
    IN  [proclen |-> Shr(BitAnd(b, 192), 6),
         reflen  |-> BitAnd(a, 63) + 4,
         refdist |-> Shl(BitAnd(b, 63), 8) + c + 1]

Decode4bCmdShortShift(opdata) ==
    LET a == opdata[1]
        b == opdata[2]
        c == opdata[3]
        d == opdata[4]
    IN  [proclen |-> BitAnd(a, 3),
         reflen  |-> Shl(BitAnd(a, 12), 6) + d + 5,
         refdist |-> Shl(BitAnd(a, 16), 8) + Shl(b, 8) + c + 1]

Decode4bCmd(opdata) ==
    LET a == opdata[1]
        b == opdata[2]
        c == opdata[3]
        d == opdata[4]
    IN  [proclen |-> BitAnd(a, 3),
         reflen  |-> Shl(BitAnd(a, 12), 6) + d + 5,
         refdist |-> Shl(BitAnd(a, 16), 12) + Shl(b, 8) + c + 1]

Decode1bCmd(opdata) ==
    LET a == opdata[1]
    IN  [proclen |-> IF a < 252 THEN Shl(BitAnd(a, 31) + 1, 2) ELSE BitAnd(a, 3),
         reflen  |-> 0,
         refdist |-> 0]

\* The branch of _decode_cmd taken for first byte `opcode`: the number of
\* opcode bytes it slices and deletes; 0 stands for the 'Bad opcode' branch.
OpcodeSize(opcode) ==
    IF BitAnd(opcode, 128) = 0 THEN 2
    ELSE IF BitAnd(opcode, 192) = 128 THEN 3
    ELSE IF BitAnd(opcode, 224) = 192 THEN 4
    ELSE IF BitAnd(opcode, 224) = 224 THEN 1
    ELSE 0

\* cmd = self._decode_Nb_cmd(compressed_data[:N]) of the branch taken
DecodeNbCmd(opdata) ==
    CASE OpcodeSize(opdata[1]) = 2 -> Decode2bCmd(opdata)
      [] OpcodeSize(opdata[1]) = 3 -> Decode3bCmd(opdata)
      [] OpcodeSize(opdata[1]) = 4 -> Decode4bCmd(opdata)
      [] OTHER                     -> Decode1bCmd(opdata)

\* a copy that computes the source index once, before the loop
CopyRefFixedIndex(out, reflen, refdist) ==
    out \o [i \in 1..reflen |-> out[Len(out) - refdist + 1]]

\* for _ in range(reflen): out.append(out[-refdist])
RECURSIVE CopyRef(_, _, _)
CopyRef(out, reflen, refdist) ==
    IF reflen = 0 THEN out
    ELSE CopyRef(Append(out, out[Len(out) - refdist + 1]), reflen - 1, refdist)

\* out[-refdist] is an IndexError when refdist exceeds the length; the
\* output only grows during the copy, so the first append decides.
CopyRaises(out, cmd) == cmd.reflen > 0 /\ cmd.refdist > Len(out)

\* unpack() of a slice shorter than the opcode raises struct.error
UnpackRaises(buf) ==
    IF Len(buf) < 1 THEN TRUE ELSE Len(buf) < OpcodeSize(buf[1])

\* One iteration of the loop of decode over the generator _decode_cmd:
\* the opcode is unpacked and deleted, its literals are yielded and
\* appended, the back reference is copied, the generator resumes, deletes
\* the literals and tests the stop condition.
DecodeStep ==
    /\ UNCHANGED not_rp
    /\ rp_pc = "decode"
    /\ ~UnpackRaises(compressed_data)
    /\ OpcodeSize(compressed_data[1]) > 0
    /\ LET size   == OpcodeSize(compressed_data[1])
           opdata == Take(compressed_data, size)
           cmd    == DecodeNbCmd(opdata)
           rest   == Drop(compressed_data, size)
           data   == Take(rest, cmd.proclen)
           out    == decompressed_data \o data
       IN  /\ ~CopyRaises(out, cmd)
           /\ decompressed_data' = CopyRef(out, cmd.reflen, cmd.refdist)
           /\ compressed_data' = Drop(rest, cmd.proclen)
           /\ cmds' = Append(cmds, [opdata |-> opdata, cmd |-> cmd, data |-> data])
           /\ rp_pc' = IF IsStop(cmd) THEN "check" ELSE "decode"
    /\ UNCHANGED <<rp_input, expanded_length, rp_error>>

\* The iteration ends in struct.error: the input is exhausted at or inside
\* an opcode.
DecodeUnpackError ==
    /\ UNCHANGED not_rp
    /\ rp_pc = "decode"
    /\ UnpackRaises(compressed_data)
    /\ rp_pc' = "raised"
    /\ rp_error' = "struct.error"
    /\ UNCHANGED <<rp_input, expanded_length, compressed_data,
                   decompressed_data, cmds>>

\* The iteration ends in IndexError: the back reference reaches before the
\* start of the output.  The literals were appended before the copy.
DecodeIndexError ==
    /\ UNCHANGED not_rp
    /\ rp_pc = "decode"
    /\ ~UnpackRaises(compressed_data)
    /\ OpcodeSize(compressed_data[1]) > 0
    /\ LET size   == OpcodeSize(compressed_data[1])
           opdata == Take(compressed_data, size)
           cmd    == DecodeNbCmd(opdata)
           rest   == Drop(compressed_data, size)
           data   == Take(rest, cmd.proclen)
           out    == decompressed_data \o data
       IN  /\ CopyRaises(out, cmd)
           /\ decompressed_data' = out
           /\ compressed_data' = rest
           /\ cmds' = Append(cmds, [opdata |-> opdata, cmd |-> cmd, data |-> data])
    /\ rp_pc' = "raised"
    /\ rp_error' = "IndexError"
    /\ UNCHANGED <<rp_input, expanded_length>>

LengthMismatchShortOnly == Len(decompressed_data) < expanded_length

LengthMismatch == Len(decompressed_data) # expanded_length

DecodeReturn ==
    /\ UNCHANGED not_rp
    /\ rp_pc = "check"
    /\ ~LengthMismatch
    /\ rp_pc' = "returned"
    /\ UNCHANGED <<rp_input, expanded_length, compressed_data,
                   decompressed_data, cmds, rp_error>>

DecodeRaiseLength ==
    /\ UNCHANGED not_rp
    /\ rp_pc = "check"
    /\ LengthMismatch
    /\ rp_pc' = "raised"
    /\ rp_error' = "ValueError"
    /\ UNCHANGED <<rp_input, expanded_length, compressed_data,
                   decompressed_data, cmds>>

\* Inputs.  Every byte string is a sequence of opcodes, each followed by its
\* literals, possibly cut short; the generated inputs are built that way.
OpTokens ==
    { <<0, 0>>,                  \* 2-byte: copy 3 from distance 1
      <<2, 1, 65, 66>>,          \* 2-byte: 2 literals, copy 3 from distance 2
      <<128, 64, 0, 67>>,        \* 3-byte: 1 literal, copy 4 from distance 1
      <<193, 0, 0, 0, 68>>,      \* 4-byte: 1 literal, copy 5 from distance 1
      <<224, 65, 66, 67, 68>>,   \* 1-byte: 4 literals
      <<252>>,                   \* stop, no literal
      <<253, 69>> }              \* stop, 1 literal

OperandBytes == {0, 65, 255}

TokenInputs ==
    { Take(Flatten(ts), Len(Flatten(ts)) - cut) :
        ts \in UNION { [1..n -> OpTokens] : n \in 0..MaxOps },
        cut \in 0..MaxCut }

\* one opcode for every value of the first byte
AnyOpcodeInputs ==
    { <<a, b, c, d>> : a \in 0..255, b \in OperandBytes,
                       c \in {0, 255}, d \in {0, 252} }

\* the Refpack object does not exist (the other components are running)
IdleRefpack ==
    /\ rp_input = <<>>
    /\ expanded_length = 0
    /\ compressed_data = <<>>
    /\ decompressed_data = <<>>
    /\ cmds = <<>>
    /\ rp_pc = "idle"
    /\ rp_error = ""

InitRefpack ==
    /\ IdleAdpcm
    /\ IdleTrOpen
    /\ IdleResources
    /\ IdleRaise
    /\ IdleFrd
    /\ IdleMerge
    /\ IdleBnk
    /\ IdleObjects
    /\ IdleFsh
    /\ IdleTrack
    /\ IdleMesh
    /\ IdleWalls
    /\ \/ /\ rp_input \in TokenInputs
          /\ expanded_length \in 0..MaxExpanded
       \/ /\ rp_input \in AnyOpcodeInputs
          /\ expanded_length \in {0, 4}
    /\ compressed_data = rp_input
    /\ decompressed_data = <<>>
    /\ cmds = <<>>
    /\ rp_pc = "decode"
    /\ rp_error = ""

NextRefpack ==
    \/ DecodeStep
    \/ DecodeUnpackError
    \/ DecodeIndexError
    \/ DecodeReturn
    \/ DecodeRaiseLength

SpecRefpack == InitRefpack /\ [][NextRefpack]_vars

-----------------------------------------------------------------------------
(* adpcm_to_s16le *)

AdpcmTable ==
    <<0, 240, 460, 392, 0, 0, -208, -220, 0, 1, 3, 4, 7, 8, 10, 11, 0, -1, -3, -4>>

\* adpcm_table[i]
TableAt(i) == AdpcmTable[i + 1]

\* unpack("<B", ...)
UnpackU8(byte) == byte

\* unpack("<b", ...)
UnpackS8(byte) == IF byte >= 128 THEN byte - 256 ELSE byte

\* pack("<h", v)
Pack16(v) == <<v % 256, (v \div 256) % 256>>

ClipInt16(a) ==
    LET lo == IF a < 32767 THEN a ELSE 32767
    IN  IF lo > -32768 THEN lo ELSE -32768

SignExtendNone(value, bits) == BitAnd(value, Shl(1, bits) - 1)

SignExtend(value, bits) ==
    LET sign_bit == Shl(1, bits - 1)
    IN  BitAnd(value, sign_bit - 1) - BitAnd(value, sign_bit)

\* next = sign_extend(v, 4) * (1 << shift)
\* next = (next + current * coeff1 + previous * coeff2 + 0x80) >> 8
\* Python computes the sum exactly.  To stay exact within 32-bit integers
\* the multiple of 256 (shift >= 8) is shifted apart from the rest.
NextSample(v, shift, current, previous, coeff1, coeff2) ==
    LET rest == (current * coeff1) + (previous * coeff2) + 128
    IN  IF shift >= 8
        THEN SignExtend(v, 4) * Shl(1, shift - 8) + Shr(rest, 8)
        ELSE Shr(SignExtend(v, 4) * Shl(1, shift) + rest, 8)

\* div = 30 if num_channels == 2 else 15
FrameSize(nc) == IF nc = 2 THEN 30 ELSE 15

ItersAlways28(nc) == 28

\* iters = 28 if num_channels == 2 else 14
Iters(nc) == IF nc = 2 THEN 28 ELSE 14

\* length = len(stream) // div
FrameCount == Len(stream) \div FrameSize(num_channels)

\* reader.read(1) returns b"" at the end and unpack raises struct.error
CanRead(n) == reader_pos + n <= Len(stream)

CallStateKept ==
    [cl |-> current_left_sample, pl |-> previous_left_sample,
     cr |-> current_right_sample, pr |-> previous_right_sample]

\* the predictor state assigned at the start of a call
CallState == [cl |-> 0, pl |-> 0, cr |-> 0, pr |-> 0]

AdpcmCall ==
    /\ UNCHANGED not_ad
    /\ ad_pc \in {"idle", "returned"}
    /\ ad_calls < MaxCalls
    /\ ad_calls' = ad_calls + 1
    /\ current_left_sample' = CallState.cl
    /\ previous_left_sample' = CallState.pl
    /\ current_right_sample' = CallState.cr
    /\ previous_right_sample' = CallState.pr
    /\ output' = <<>>
    /\ reader_pos' = 0
    /\ frame' = 0
    /\ iter' = 0
    /\ ad_pc' = "frame"
    /\ UNCHANGED <<stream, num_channels, coeffs, shift_left, shift_right,
                   first_output>>

\* The head of one iteration of the frame loop: the control byte and, for
\* stereo, the shift byte.
AdpcmFrameHeader ==
    /\ UNCHANGED not_ad
    /\ ad_pc = "frame"
    /\ frame < FrameCount
    /\ IF ~CanRead(IF num_channels = 2 THEN 2 ELSE 1)
       THEN /\ ad_pc' = "raised"
            /\ UNCHANGED <<reader_pos, coeffs, shift_left, shift_right, iter>>
       ELSE LET byte == UnpackU8(stream[reader_pos + 1])
            IN  /\ coeffs' = <<TableAt(Shr(byte, 4)),
                               TableAt(Shr(byte, 4) + 4),
                               TableAt(BitAnd(byte, 15)),
                               TableAt(BitAnd(byte, 15) + 4)>>
                /\ IF num_channels = 2
                   THEN LET byte2 == UnpackS8(stream[reader_pos + 2])
                        IN  /\ shift_left' = 20 - Shr(byte2, 4)
                            /\ shift_right' = 20 - BitAnd(byte2, 15)
                            /\ reader_pos' = reader_pos + 2
                   ELSE /\ shift_left' = 20 - BitAnd(byte, 15)
                        /\ shift_right' = 0
                        /\ reader_pos' = reader_pos + 1
                /\ iter' = 0
                /\ ad_pc' = "sample"
    /\ UNCHANGED <<stream, num_channels, ad_calls, frame,
                   current_left_sample, previous_left_sample,
                   current_right_sample, previous_right_sample,
                   output, first_output>>

\* One iteration of the sample loop: one byte, two nibbles, two samples.
AdpcmSampleByte ==
    /\ UNCHANGED not_ad
    /\ ad_pc = "sample"
    /\ IF ~CanRead(1)
       THEN /\ ad_pc' = "raised"
            /\ UNCHANGED <<reader_pos, frame, iter, output,
                           current_left_sample, previous_left_sample,
                           current_right_sample, previous_right_sample>>
       ELSE LET byte == UnpackS8(stream[reader_pos + 1])
                left == ClipInt16(NextSample(Shr(byte, 4), shift_left,
                                             current_left_sample,
                                             previous_left_sample,
                                             coeffs[1], coeffs[2]))
            IN  /\ reader_pos' = reader_pos + 1
                /\ IF num_channels = 2
                   THEN LET right == ClipInt16(NextSample(byte, shift_right,
                                                  current_right_sample,
                                                  previous_right_sample,
                                                  coeffs[3], coeffs[4]))
                        IN  /\ previous_left_sample' = current_left_sample
                            /\ current_left_sample' = left
                            /\ previous_right_sample' = current_right_sample
                            /\ current_right_sample' = right
                            /\ output' = output \o Pack16(left) \o Pack16(right)
                   ELSE LET second == ClipInt16(NextSample(byte, shift_left,
                                                   left, current_left_sample,
                                                   coeffs[1], coeffs[2]))
                        IN  /\ previous_left_sample' = left
                            /\ current_left_sample' = second
                            /\ UNCHANGED <<current_right_sample,
                                           previous_right_sample>>
                            /\ output' = output \o Pack16(left) \o Pack16(second)
                /\ IF iter + 1 < Iters(num_channels)
                   THEN /\ iter' = iter + 1
                        /\ UNCHANGED <<frame, ad_pc>>
                   ELSE /\ iter' = 0
                        /\ frame' = frame + 1
                        /\ ad_pc' = "frame"
    /\ UNCHANGED <<stream, num_channels, ad_calls, coeffs, shift_left,
                   shift_right, first_output>>

AdpcmReturn ==
    /\ UNCHANGED not_ad
    /\ ad_pc = "frame"
    /\ frame >= FrameCount
    /\ ad_pc' = "returned"
    /\ first_output' = IF ad_calls = 1 THEN output ELSE first_output
    /\ UNCHANGED <<stream, num_channels, ad_calls, reader_pos, frame, iter,
                   current_left_sample, previous_left_sample,
                   current_right_sample, previous_right_sample,
                   coeffs, shift_left, shift_right, output>>

\* Inputs: streams of equal frames and a partial one, the bytes of a frame
\* drawn from these sets.
CtrlBytes == {0, 5, 17, 35, 63, 245}

ShiftBytes == {0, 90, 127, 128, 248}

SamplePairs == { <<0, 0>>, <<120, 120>>, <<135, 120>>, <<31, 241>> }

FrameBytes(nc, ctrl, sh, pair) ==
    <<ctrl>> \o (IF nc = 2 THEN <<sh>> ELSE <<>>)
             \o [i \in 1..Iters(nc) |-> pair[2 - (i % 2)]]

RECURSIVE Repeat(_, _)
Repeat(s, n) == IF n = 0 THEN <<>> ELSE s \o Repeat(s, n - 1)

AdpcmStreams(nc) ==
    { Take(Repeat(FrameBytes(nc, ctrl, sh, pair), n + 1), n * FrameSize(nc) + tail) :
        ctrl \in CtrlBytes,
        sh \in (IF nc = 2 THEN ShiftBytes ELSE {0}),
        pair \in SamplePairs,
        n \in 0..MaxFrames,
        tail \in 0..MaxTail }
    \cup
    { FrameBytes(nc, 17, sh, <<31, 241>>) :
        sh \in (IF nc = 2 THEN 0..255 ELSE {0}) }

InitAdpcm ==
    /\ IdleRefpack
    /\ IdleTrOpen
    /\ IdleResources
    /\ IdleRaise
    /\ IdleFrd
    /\ IdleMerge
    /\ IdleBnk
    /\ IdleObjects
    /\ IdleFsh
    /\ IdleTrack
    /\ IdleMesh
    /\ IdleWalls
    /\ num_channels \in {1, 2}
    /\ stream \in AdpcmStreams(num_channels)
    /\ ad_pc = "idle"
    /\ ad_calls = 0
    /\ reader_pos = 0
    /\ frame = 0
    /\ iter = 0
    /\ current_left_sample = 0
    /\ previous_left_sample = 0
    /\ current_right_sample = 0
    /\ previous_right_sample = 0
    /\ coeffs = <<0, 0, 0, 0>>
    /\ shift_left = 0
    /\ shift_right = 0
    /\ output = <<>>
    /\ first_output = <<>>

NextAdpcm ==
    \/ AdpcmCall
    \/ AdpcmFrameHeader
    \/ AdpcmSampleByte
    \/ AdpcmReturn

SpecAdpcm == InitAdpcm /\ [][NextAdpcm]_vars

-----------------------------------------------------------------------------
(* TrackData.tr_open *)

Variants == {"NW", "N", "W", ""}

TryOptionsNoNightFallback(night, weather) ==
    IF weather /\ night THEN <<"NW", "">>
    ELSE IF night THEN <<"N", "">>
    ELSE IF weather THEN <<"W", "">>
    ELSE <<"">>

\* try_options
TryOptions(night, weather) ==
    IF weather /\ night THEN <<"NW", "N", "">>
    ELSE IF night THEN <<"N", "">>
    ELSE IF weather THEN <<"W", "">>
    ELSE <<"">>

\* get_path_case_insensitive(directory, path) followed by constructor(path)
\* finds the file of the variant; FileNotFoundError otherwise
FileFound(variant) == variant \in tr_files

\* an iteration of the loop whose constructor call returns
TrOpenReturn ==
    /\ UNCHANGED not_tr
    /\ tr_pc = "loop"
    /\ tr_idx < Len(TryOptions(tr_night, tr_weather))
    /\ FileFound(TryOptions(tr_night, tr_weather)[tr_idx + 1])
    /\ tr_result' = TryOptions(tr_night, tr_weather)[tr_idx + 1]
    /\ tr_pc' = "returned"
    /\ UNCHANGED <<tr_files, tr_mirrored, tr_night, tr_weather, tr_idx>>

\* an iteration whose FileNotFoundError is suppressed
TrOpenSuppress ==
    /\ UNCHANGED not_tr
    /\ tr_pc = "loop"
    /\ tr_idx < Len(TryOptions(tr_night, tr_weather))
    /\ ~FileFound(TryOptions(tr_night, tr_weather)[tr_idx + 1])
    /\ tr_idx' = tr_idx + 1
    /\ UNCHANGED <<tr_files, tr_mirrored, tr_night, tr_weather, tr_pc, tr_result>>

\* raise FileNotFoundError after the loop
TrOpenRaise ==
    /\ UNCHANGED not_tr
    /\ tr_pc = "loop"
    /\ tr_idx >= Len(TryOptions(tr_night, tr_weather))
    /\ tr_pc' = "raised"
    /\ UNCHANGED <<tr_files, tr_mirrored, tr_night, tr_weather, tr_idx, tr_result>>

InitTrOpen ==
    /\ IdleRefpack
    /\ IdleAdpcm
    /\ IdleResources
    /\ IdleRaise
    /\ IdleFrd
    /\ IdleMerge
    /\ IdleBnk
    /\ IdleObjects
    /\ IdleFsh
    /\ IdleTrack
    /\ IdleMesh
    /\ IdleWalls
    /\ tr_files \in SUBSET Variants
    /\ tr_mirrored \in BOOLEAN
    /\ tr_night \in BOOLEAN
    /\ tr_weather \in BOOLEAN
    /\ tr_pc = "loop"
    /\ tr_idx = 0
    /\ tr_result = "none"

NextTrOpen ==
    \/ TrOpenReturn
    \/ TrOpenSuppress
    \/ TrOpenRaise

SpecTrOpen == InitTrOpen /\ [][NextTrOpen]_vars

-----------------------------------------------------------------------------
(* unique_named_resources *)

MaxResources == 3    \* resources in a generated input

\* count.setdefault(k, default), read only
SetDefault(count, k, default) ==
    IF k \in DOMAIN count THEN count[k] ELSE default

RepeatsFromOne(count, k) == SetDefault(count, k, 0) + 1

\* count.setdefault(k, -1) + 1
Repeats(count, k) == SetDefault(count, k, -1) + 1

\* make_unique_name
MakeUniqueName(resource, repeats) ==
    IF repeats = 0 THEN resource
    ELSE [ name        |-> resource.name \o "-" \o ToString(repeats),
           image       |-> resource.image,
           mirrored    |-> resource.mirrored,
           nonmirrored |-> resource.nonmirrored,
           blend_mode  |-> resource.blend_mode ]

\* one iteration of the loop of count_repeats_and_map, up to its yield
CountRepeatsAndMapStep ==
    /\ UNCHANGED not_ur
    /\ Len(ur_output) < Len(ur_input)
    /\ LET item == ur_input[Len(ur_output) + 1]
           k == item.name
           repeats == Repeats(ur_count, k)
       IN /\ ur_count' = [ n \in DOMAIN ur_count \cup {k} |->
                             IF n = k THEN repeats ELSE ur_count[n] ]
          /\ ur_output' = Append(ur_output, MakeUniqueName(item, repeats))
    /\ UNCHANGED ur_input

ResourceNames == {"a", "b", "a-1"}

ResourceImages == {"img0", "img1"}

ResourceInputs ==
    { [ name        |-> n,
        image       |-> i,
        mirrored    |-> (i = "img1"),
        nonmirrored |-> (n = "b"),
        blend_mode  |-> (IF i = "img0" THEN "None" ELSE "ADDITIVE") ] :
      n \in ResourceNames, i \in ResourceImages }

InitResources ==
    /\ IdleRefpack
    /\ IdleAdpcm
    /\ IdleTrOpen
    /\ IdleRaise
    /\ IdleFrd
    /\ IdleMerge
    /\ IdleBnk
    /\ IdleObjects
    /\ IdleFsh
    /\ IdleTrack
    /\ IdleMesh
    /\ IdleWalls
    /\ ur_input \in UNION { [1..n -> ResourceInputs] : n \in 0..MaxResources }
    /\ ur_count = <<>>
    /\ ur_output = <<>>

NextResources == CountRepeatsAndMapStep

SpecResources == InitResources /\ [][NextResources]_vars

-----------------------------------------------------------------------------
(* TrackData._raise_vertex *)

MaxHeights == 4      \* height samples in a generated list

\* Vector3d.subtract
Subtract(a, b) == [x |-> a.x - b.x, z |-> a.z - b.z, y |-> a.y - b.y]

\* Vector3d.magnitude is sqrt(x**2 + y**2 + z**2); the keys are only compared
\* with each other and sqrt is strictly increasing, so the radicand stands
\* for the key
MagnitudeSquared(v) == v.x * v.x + v.y * v.y + v.z * v.z

\* sort_key(vertex, x)
SortKey(vertex, x) == MagnitudeSquared(Subtract(vertex.location, x[1]))

\* get_height(x)
GetHeight(x) == x[2]

\* sorted() is stable: x goes behind every element whose key is not larger
RECURSIVE InsertHeight(_, _, _)
InsertHeight(vertex, x, s) ==
    IF s = <<>> THEN <<x>>
    ELSE IF SortKey(vertex, x) < SortKey(vertex, Head(s)) THEN <<x>> \o s
    ELSE <<Head(s)>> \o InsertHeight(vertex, x, Tail(s))

\* sorted(heights, key=partial(sort_key, vertex))
RECURSIVE SortedHeights(_, _)
SortedHeights(vertex, heights) ==
    IF heights = <<>> THEN <<>>
    ELSE InsertHeight(vertex, heights[Len(heights)],
                      SortedHeights(vertex, SubSeq(heights, 1, Len(heights) - 1)))

\* min(s, key=get_height) of a non-empty s: the first of the lowest
RECURSIVE MinByHeight(_)
MinByHeight(s) ==
    IF Len(s) = 1 THEN s[1]
    ELSE LET m == MinByHeight(SubSeq(s, 1, Len(s) - 1))
         IN IF GetHeight(s[Len(s)]) < GetHeight(m) THEN s[Len(s)] ELSE m

TargetHeightNearest(closest_heights) == closest_heights[1]

\* target_height = min(closest_heights, key=get_height)
TargetHeight(closest_heights) == MinByHeight(closest_heights)

\* the vertex _raise_vertex returns
RaisedVertex(heights, vertex) ==
    LET sorted_heights == SortedHeights(vertex, heights)
        closest_heights == Take(sorted_heights, 3)
        target_height == TargetHeight(closest_heights)
        location == vertex.location
        y == location.y + GetHeight(target_height)
        new_location == [location EXCEPT !.y = y]
    IN [vertex EXCEPT !.location = new_location]

RaiseVertexReturn ==
    /\ UNCHANGED not_rv
    /\ rv_pc = "call"
    /\ rv_heights # <<>>
    /\ rv_result' = RaisedVertex(rv_heights, rv_vertex)
    /\ rv_pc' = "returned"
    /\ UNCHANGED <<rv_heights, rv_vertex>>

\* min() of an empty sequence raises ValueError
RaiseVertexError ==
    /\ UNCHANGED not_rv
    /\ rv_pc = "call"
    /\ rv_heights = <<>>
    /\ rv_pc' = "raised"
    /\ UNCHANGED <<rv_heights, rv_vertex, rv_result>>

Vec(x, z, y) == [x |-> x, z |-> z, y |-> y]

SampleLocations == {Vec(1, 0, 0), Vec(2, 0, 0), Vec(0, 2, 0), Vec(0, 0, 3)}

SampleInputs == { <<l, h>> : l \in SampleLocations, h \in {1, 2} }

VertexInputs ==
    { [location |-> Vec(0, 0, 0), normal |-> "None", color |-> "c0"],
      [location |-> Vec(0, 0, 10), normal |-> "n1", color |-> "None"] }

InitRaise ==
    /\ IdleRefpack
    /\ IdleAdpcm
    /\ IdleTrOpen
    /\ IdleResources
    /\ IdleFrd
    /\ IdleMerge
    /\ IdleBnk
    /\ IdleObjects
    /\ IdleFsh
    /\ IdleTrack
    /\ IdleMesh
    /\ IdleWalls
    /\ rv_heights \in UNION { [1..n -> SampleInputs] : n \in 0..MaxHeights }
    /\ rv_vertex \in VertexInputs
    /\ rv_pc = "call"
    /\ rv_result = <<>>

NextRaise ==
    \/ RaiseVertexReturn
    \/ RaiseVertexError

SpecRaise == InitRaise /\ [][NextRaise]_vars

-----------------------------------------------------------------------------
(* FrdData.track_segments *)

MaxSegments == 2     \* segments in a generated file
MaxDriveable == 3    \* polygons of the high-resolution track chunk that a
                     \* generated segment can list as driveable

HighPolyChunksMaskWithMedium ==
    <<FALSE, FALSE, FALSE, TRUE, TRUE, TRUE, TRUE, TRUE, TRUE, TRUE, TRUE>>

\* FrdData.high_poly_chunks: low-resolution track and misc geometry,
\* medium-resolution track and misc geometry, high-resolution track and misc
\* geometry, road lanes, and four more chunks of high-resolution misc geometry
HighPolyChunksMask ==
    <<FALSE, FALSE, FALSE, FALSE, TRUE, TRUE, TRUE, TRUE, TRUE, TRUE, TRUE>>

ROAD_BLOCKS_PER_SEGMENT == 8

\* itertools.compress(data, selectors)
RECURSIVE Compress(_, _)
Compress(data, selectors) ==
    IF data = <<>> \/ selectors = <<>> THEN <<>>
    ELSE (IF Head(selectors) THEN <<Head(data)>> ELSE <<>>)
            \o Compress(Tail(data), Tail(selectors))

\* _high_poly_chunks
HighPolyChunks(block) == Compress(block.chunks, HighPolyChunksMask)

\* islicen(iterable, start, num)
IsliceN(iterable, start, num) == Take(Drop(iterable, start), num)

\* Vector3d.from_frd_float3 and the keyword copies of _make_waypoints: the
\* fields are copied by name
FromFrdFloat3(value) == [x |-> value.x, z |-> value.z, y |-> value.y]

\* the steps of _texture_flags_to_uv on the list uv of [u, v] lists
MirrorY(uv) ==
    [uv EXCEPT ![2][2] = uv[3][2], ![3][2] = uv[2][2],
               ![1][2] = uv[4][2], ![4][2] = uv[1][2]]

MirrorXOuterCorners(uv) ==
    [uv EXCEPT ![1][1] = uv[4][1], ![4][1] = uv[1][1],
               ![2][1] = uv[3][1], ![3][1] = uv[2][1]]

MirrorX(uv) ==
    [uv EXCEPT ![1][1] = uv[2][1], ![2][1] = uv[1][1],
               ![3][1] = uv[4][1], ![4][1] = uv[3][1]]

Invert(uv) == [i \in 1..Len(uv) |-> <<1 - uv[i][1], 1 - uv[i][2]>>]

Rotate(uv) ==
    [uv EXCEPT ![1][2] = 1 - uv[1][2], ![2][1] = 1 - uv[2][1],
               ![3][2] = 1 - uv[3][2], ![4][1] = 1 - uv[4][1]]

\* _texture_flags_to_uv
TextureFlagsToUv(polygon) ==
    LET uv0 == << <<1, 1>>, <<0, 1>>, <<0, 0>>, <<1, 0>> >>
        uv1 == IF polygon.mirror_y THEN MirrorY(uv0) ELSE uv0
        uv2 == IF polygon.mirror_x THEN MirrorX(uv1) ELSE uv1
        uv3 == IF polygon.invert THEN Invert(uv2) ELSE uv2
        uv4 == IF polygon.rotate THEN Rotate(uv3) ELSE uv3
    IN [i \in 1..4 |-> [u |-> uv4[i][1], v |-> uv4[i][2]]]

\* zip(a, b)
Zip(a, b) ==
    [i \in 1..(IF Len(a) < Len(b) THEN Len(a) ELSE Len(b)) |-> <<a[i], b[i]>>]

\* unique_everseen(pairs, key=lambda x: nth(x, 0))
RECURSIVE UniqueEverseen(_, _)
UniqueEverseen(pairs, seen) ==
    IF pairs = <<>> THEN <<>>
    ELSE IF Head(pairs)[1] \in seen THEN UniqueEverseen(Tail(pairs), seen)
    ELSE <<Head(pairs)>>
            \o UniqueEverseen(Tail(pairs), seen \cup {Head(pairs)[1]})

\* _validate_polygon(face, iterable)
ValidatePolygon(face, iterable) == UniqueEverseen(Zip(face, iterable), {})

\* the two tuples unzip makes of a list of pairs
Unzip(pairs, k) == [i \in 1..Len(pairs) |-> pairs[i][k]]

\* _make_polygon
MakePolygon(polygon, billboard) ==
    LET quads_or_triangles ==
            ValidatePolygon(polygon.face, TextureFlagsToUv(polygon))
    IN [ face              |-> Unzip(quads_or_triangles, 1),
         uv                |-> Unzip(quads_or_triangles, 2),
         material          |-> polygon.texture_id,
         backface_culling  |-> polygon.backface_culling,
         is_lane           |-> polygon.lane,
         transparent       |-> FALSE,
         highly_reflective |-> FALSE,
         non_reflective    |-> TRUE,
         animation_ticks   |-> polygon.animation_ticks,
         animation_count   |-> IF ~polygon.animate_uv
                               THEN polygon.texture_count ELSE 0,
         billboard         |-> billboard ]

\* _make_collision_polygon
MakeCollisionPolygon(segment, polygon) ==
    LET all_edges == <<"FRONT", "LEFT", "BACK", "RIGHT">>
        poly_face == segment.chunks[5].polygons[polygon.polygon + 1].face
        validated == ValidatePolygon(poly_face, all_edges)
        allowed_edges == { validated[i][2] : i \in 1..Len(validated) }
        edges == (IF polygon.front_edge THEN <<"FRONT">> ELSE <<>>)
                 \o (IF polygon.left_edge THEN <<"LEFT">> ELSE <<>>)
                 \o (IF polygon.back_edge THEN <<"BACK">> ELSE <<>>)
                 \o (IF polygon.right_edge THEN <<"RIGHT">> ELSE <<>>)
        InAllowed(e) == e \in allowed_edges
    IN [ face               |-> Unzip(validated, 1),
         edges              |-> SelectSeq(edges, InAllowed),
         has_finite_height  |-> polygon.has_finite_height,
         has_wall_collision |-> polygon.has_wall_collision ]

\* remove_unused_vertices.  The list of the used vertices is made from a
\* set, so its order is arbitrary; the mesh is kept up to that order: vertices
\* is the set of the used vertices and a face lists the vertices its indices
\* select.
RemoveUnusedVertices(mesh) ==
    LET FaceVertices(polygon) ==
            [polygon EXCEPT
                !.face = [i \in 1..Len(polygon.face) |->
                             mesh.vertices[polygon.face[i] + 1]]]
        polygons == [i \in 1..Len(mesh.polygons) |->
                        FaceVertices(mesh.polygons[i])]
        used_vertices ==
            UNION { { polygons[i].face[k] : k \in 1..Len(polygons[i].face) } :
                    i \in 1..Len(polygons) }
    IN [mesh EXCEPT !.vertices = used_vertices, !.polygons = polygons]

\* _make_collision_mesh
MakeCollisionMesh(segment, road_effect, driveable_polygons) ==
    LET polygons == [i \in 1..Len(driveable_polygons) |->
                        MakeCollisionPolygon(segment, driveable_polygons[i])]
        vertices == [i \in 1..Len(segment.vertices) |->
                        [ location |-> FromFrdFloat3(segment.vertices[i]),
                          normal   |-> "None",
                          color    |-> "None" ]]
    IN RemoveUnusedVertices([ vertices         |-> vertices,
                              polygons         |-> polygons,
                              collision_effect |-> road_effect ])

\* driveable_polygon_key
DriveablePolygonKey(driveable_polygon) == driveable_polygon.road_effect

\* sorted(segment.driveable_polygons, key=driveable_polygon_key): stable
RECURSIVE InsertDriveable(_, _)
InsertDriveable(x, s) ==
    IF s = <<>> THEN <<x>>
    ELSE IF DriveablePolygonKey(x) < DriveablePolygonKey(Head(s))
         THEN <<x>> \o s
    ELSE <<Head(s)>> \o InsertDriveable(x, Tail(s))

RECURSIVE SortedDriveable(_)
SortedDriveable(s) ==
    IF s = <<>> THEN <<>>
    ELSE InsertDriveable(s[Len(s)], SortedDriveable(SubSeq(s, 1, Len(s) - 1)))

\* itertools.groupby(s, key=driveable_polygon_key): <<key, group>> pairs of
\* the runs of equal keys
RECURSIVE GroupBy(_)
GroupBy(s) ==
    IF s = <<>> THEN <<>>
    ELSE LET rest == GroupBy(Tail(s))
             k == DriveablePolygonKey(Head(s))
         IN IF rest # <<>> /\ rest[1][1] = k
            THEN << <<k, <<Head(s)>> \o rest[1][2]>> >> \o Tail(rest)
            ELSE << <<k, <<Head(s)>> >> >> \o rest

\* _make_collision_meshes
MakeCollisionMeshes(segment) ==
    LET driveable_polygons == SortedDriveable(segment.driveable_polygons)
        driveable_mesh_groups == GroupBy(driveable_polygons)
    IN [i \in 1..Len(driveable_mesh_groups) |->
           MakeCollisionMesh(segment, driveable_mesh_groups[i][1],
                             driveable_mesh_groups[i][2])]

\* _make_waypoints
MakeWaypoints(road_block) == FromFrdFloat3(road_block.location)

\* _make_track_segment
MakeTrackSegment(header, segment, road_blocks) ==
    LET polygons == Flatten([i \in 1..Len(HighPolyChunks(segment)) |->
                                HighPolyChunks(segment)[i].polygons])
        track_polygons == [i \in 1..Len(polygons) |->
                              MakePolygon(polygons[i], FALSE)]
        vertices == [i \in 1..Len(segment.vertices) |->
                        [ location |-> FromFrdFloat3(segment.vertices[i]),
                          normal   |-> "None",
                          color    |-> segment.vertex_shadings[i] ]]
    IN [ mesh             |-> [ vertices   |-> vertices,
                                polygons   |-> track_polygons,
                                shape_keys |-> <<>> ],
         collision_meshes |-> MakeCollisionMeshes(segment),
         waypoints        |-> [i \in 1..Len(road_blocks) |->
                                  MakeWaypoints(road_blocks[i])] ]

NumSegmentsAllButLast ==
    IF Len(frd.segment_data) = 0 THEN 0 ELSE Len(frd.segment_data) - 1

\* map() over segment_headers, segment_data and road_blocks stops with the
\* shortest of them; road_blocks has one entry for every header
NumSegments ==
    IF Len(frd.segment_headers) < Len(frd.segment_data)
    THEN Len(frd.segment_headers) ELSE Len(frd.segment_data)

\* the iterator track_segments returns yields its next TrackSegment
TrackSegmentsNext ==
    /\ UNCHANGED not_frd
    /\ frd_pc = "iter"
    /\ Len(frd_out) < NumSegments
    /\ LET i == Len(frd_out)
           header == frd.segment_headers[i + 1]
           road_blocks == IsliceN(frd.road_blocks, i * ROAD_BLOCKS_PER_SEGMENT,
                                  header.num_road_blocks)
       IN frd_out' = Append(frd_out,
                            MakeTrackSegment(header, frd.segment_data[i + 1],
                                             road_blocks))
    /\ UNCHANGED <<frd, frd_pc>>

\* the iterator is exhausted
TrackSegmentsStop ==
    /\ UNCHANGED not_frd
    /\ frd_pc = "iter"
    /\ Len(frd_out) >= NumSegments
    /\ frd_pc' = "stopped"
    /\ UNCHANGED <<frd, frd_out>>

\* ---- generated files ----

QuadFace == <<0, 1, 2, 3>>

TriangleFace == <<0, 1, 2, 2>>

\* a triangle whose repeated index comes first, and a face of 2 vertices
LeadingTriangleFace == <<0, 0, 1, 2>>

LineFace == <<0, 1, 1, 0>>

PlainPolygon(texture_id, face) ==
    [ face |-> face, texture_id |-> texture_id, backface_culling |-> TRUE,
      lane |-> FALSE, mirror_x |-> FALSE, mirror_y |-> FALSE,
      invert |-> FALSE, rotate |-> FALSE, animation_ticks |-> 0,
      texture_count |-> 1, animate_uv |-> FALSE ]

\* a quad for every combination of the texture flags, and a triangle, a lane
\* polygon, a polygon with an animated texture and two faces with repeated
\* indices in other places
PolygonInputs(texture_id) ==
    { [PlainPolygon(texture_id, QuadFace) EXCEPT
          !.mirror_x = mx, !.mirror_y = my, !.invert = inv, !.rotate = rot] :
      mx \in BOOLEAN, my \in BOOLEAN, inv \in BOOLEAN, rot \in BOOLEAN }
    \cup { PlainPolygon(texture_id, TriangleFace),
           [PlainPolygon(texture_id, LeadingTriangleFace) EXCEPT
               !.mirror_x = TRUE],
           PlainPolygon(texture_id, LineFace),
           [PlainPolygon(texture_id, QuadFace) EXCEPT !.lane = TRUE],
           [PlainPolygon(texture_id, QuadFace) EXCEPT
               !.animate_uv = TRUE, !.texture_count = 3,
               !.animation_ticks = 5, !.backface_culling = FALSE] }

SegmentVertices ==
    << [x |-> 0, y |-> 0, z |-> 0], [x |-> 1, y |-> 0, z |-> 0],
       [x |-> 1, y |-> 1, z |-> 1], [x |-> 0, y |-> 1, z |-> 1] >>

SegmentShadings ==
    [i \in 1..4 |-> [alpha |-> 255, red |-> i, green |-> 0, blue |-> 0]]

NumChunks == Len(HighPolyChunksMask)

EmptyChunks == [c \in 1..NumChunks |-> [polygons |-> <<>>]]

SegmentOf(chunks, driveable_polygons) ==
    [ chunks             |-> chunks,
      vertices           |-> SegmentVertices,
      vertex_shadings    |-> SegmentShadings,
      driveable_polygons |-> driveable_polygons ]

\* one polygon in one chunk, nothing driveable
OnePolygonSegments ==
    UNION { { SegmentOf([EmptyChunks EXCEPT ![c].polygons = <<p>>], <<>>) :
              p \in PolygonInputs(c - 1) } : c \in 1..NumChunks }

DriveablePolygon(polygon, road_effect) ==
    [ polygon            |-> polygon,
      road_effect        |-> road_effect,
      front_edge         |-> (polygon % 2 = 0),
      left_edge          |-> TRUE,
      back_edge          |-> (polygon % 2 = 1),
      right_edge         |-> TRUE,
      has_finite_height  |-> (polygon = 0),
      has_wall_collision |-> (polygon # 1) ]

\* the driveable polygons named by f, in the order of their indices: f gives
\* the road effect of a polygon, or -1 for a polygon that is not driveable
RECURSIVE DriveableList(_, _)
DriveableList(f, n) ==
    IF n = 0 THEN <<>>
    ELSE DriveableList(f, n - 1)
            \o (IF f[n - 1] = -1 THEN <<>>
                ELSE <<DriveablePolygon(n - 1, f[n - 1])>>)

\* a polygon in every chunk (its texture_id names the chunk) and MaxDriveable
\* polygons in the high-resolution track chunk, some of them driveable
FullChunks ==
    [c \in 1..NumChunks |->
        [polygons |->
            IF c = 5
            THEN [k \in 1..MaxDriveable |->
                     PlainPolygon(c - 1, IF k % 2 = 0 THEN TriangleFace
                                         ELSE QuadFace)]
            ELSE <<PlainPolygon(c - 1, QuadFace)>>]]

DriveableSegments ==
    { SegmentOf(FullChunks, DriveableList(f, MaxDriveable)) :
      f \in [0..(MaxDriveable - 1) -> {-1, 0, 1}] }

\* the segments in front of the last one
LeadingSegments ==
    { SegmentOf(EmptyChunks, <<>>),
      SegmentOf([EmptyChunks EXCEPT ![5].polygons =
                                       <<PlainPolygon(4, QuadFace)>>], <<>>) }

\* every segment but the last has ROAD_BLOCKS_PER_SEGMENT road blocks
FrdOf(segments) ==
    [ segment_headers |->
          [i \in 1..Len(segments) |->
              [num_road_blocks |-> IF i < Len(segments)
                                   THEN ROAD_BLOCKS_PER_SEGMENT ELSE 3]],
      segment_data    |-> segments,
      road_blocks     |->
          [k \in 1..(IF segments = <<>> THEN 0
                     ELSE (Len(segments) - 1) * ROAD_BLOCKS_PER_SEGMENT + 3) |->
              [location |-> [x |-> k, y |-> 0, z |-> 0]]] ]

FrdInputs ==
    { FrdOf(<<>>) }
    \cup { FrdOf(leading \o <<last>>) :
           leading \in UNION { [1..n -> LeadingSegments] :
                               n \in 0..(MaxSegments - 1) },
           last \in OnePolygonSegments \cup DriveableSegments }

InitFrd ==
    /\ IdleRefpack
    /\ IdleAdpcm
    /\ IdleTrOpen
    /\ IdleResources
    /\ IdleRaise
    /\ IdleMerge
    /\ IdleBnk
    /\ IdleObjects
    /\ IdleFsh
    /\ IdleTrack
    /\ IdleMesh
    /\ IdleWalls
    /\ frd \in FrdInputs
    /\ frd_pc = "iter"
    /\ frd_out = <<>>

NextFrd ==
    \/ TrackSegmentsNext
    \/ TrackSegmentsStop

SpecFrd == InitFrd /\ [][NextFrd]_vars

-----------------------------------------------------------------------------
(* VivData.engine_audio and merge_tables *)

MaxEntries == 2      \* entries of a generated load or coast table

\* _make_sound_table: the zip of the three lists without the entries whose
\* patch number is -1, as <<patchnum, SoundTable>> pairs
RECURSIVE MakeSoundTableFrom(_, _, _)
MakeSoundTableFrom(table_type, body, i) ==
    IF i > Len(body.patchnum) \/ i > Len(body.volume) \/ i > Len(body.pitch)
    THEN <<>>
    ELSE (IF body.patchnum[i] # -1
          THEN << <<body.patchnum[i],
                    [ volume     |-> body.volume[i],
                      pitch      |-> body.pitch[i],
                      table_type |-> table_type ]>> >>
          ELSE <<>>)
            \o MakeSoundTableFrom(table_type, body, i + 1)

MakeSoundTable(table_type, body) == MakeSoundTableFrom(table_type, body, 1)

\* tables.sort(key=lambda x: x[0]): stable
RECURSIVE InsertTable(_, _)
InsertTable(x, s) ==
    IF s = <<>> THEN <<x>>
    ELSE IF x[1] < Head(s)[1] THEN <<x>> \o s
    ELSE <<Head(s)>> \o InsertTable(x, Tail(s))

RECURSIVE SortedTables(_)
SortedTables(s) ==
    IF s = <<>> THEN <<>>
    ELSE InsertTable(s[Len(s)], SortedTables(SubSeq(s, 1, Len(s) - 1)))

\* groupby_transform(tables, keyfunc=x[0], valuefunc=x[1], reducefunc=list)
RECURSIVE GroupByPatchnum(_)
GroupByPatchnum(s) ==
    IF s = <<>> THEN <<>>
    ELSE LET rest == GroupByPatchnum(Tail(s))
             k == Head(s)[1]
         IN IF rest # <<>> /\ rest[1][1] = k
            THEN << <<k, <<Head(s)[2]>> \o rest[1][2]>> >> \o Tail(rest)
            ELSE << <<k, <<Head(s)[2]>> >> >> \o rest

TablesCoastFirst(load, coast) == coast \o load

\* tables = load + coast
Tables(load, coast) == load \o coast

\* table_by_patchnum of merge_tables
TableByPatchnum(load, coast) ==
    GroupByPatchnum(SortedTables(Tables(load, coast)))

\* mkenginesound, for a patch number that is a key of samples
MkEngineSound(samples, patchnum, tables) ==
    [ streams  |-> samples[patchnum],
      tables   |-> tables,
      is_rear  |-> (patchnum > 64),
      patchnum |-> patchnum ]

\* ltb_engine_sounds and ctb_engine_sounds of engine_audio
LoadSounds == MakeSoundTable("LOAD", viv.ltb)

CoastSounds == MakeSoundTable("COAST", viv.ctb)

\* engine_audio finds its three entries and returns the iterator
EngineAudioReturn ==
    /\ UNCHANGED not_mt
    /\ mt_pc = "call"
    /\ viv.present
    /\ mt_pc' = "iter"
    /\ UNCHANGED <<viv, mt_out, mt_error>>

\* one() raises ValueError for an entry that is not in the archive:
\* engine_audio returns []
EngineAudioValueError ==
    /\ UNCHANGED not_mt
    /\ mt_pc = "call"
    /\ ~viv.present
    /\ mt_pc' = "done"
    /\ UNCHANGED <<viv, mt_out, mt_error>>

\* the iterator yields the EngineAudio of the next patch number
MergeNext ==
    /\ UNCHANGED not_mt
    /\ mt_pc = "iter"
    /\ Len(mt_out) < Len(TableByPatchnum(LoadSounds, CoastSounds))
    /\ LET group == TableByPatchnum(LoadSounds, CoastSounds)[Len(mt_out) + 1]
       IN /\ group[1] \in DOMAIN viv.samples
          /\ mt_out' = Append(mt_out,
                              MkEngineSound(viv.samples, group[1], group[2]))
    /\ UNCHANGED <<viv, mt_pc, mt_error>>

\* samples[patchnum] raises KeyError
MergeKeyError ==
    /\ UNCHANGED not_mt
    /\ mt_pc = "iter"
    /\ Len(mt_out) < Len(TableByPatchnum(LoadSounds, CoastSounds))
    /\ TableByPatchnum(LoadSounds, CoastSounds)[Len(mt_out) + 1][1]
          \notin DOMAIN viv.samples
    /\ mt_pc' = "raised"
    /\ mt_error' = "KeyError"
    /\ UNCHANGED <<viv, mt_out>>

\* the iterator is exhausted
MergeStop ==
    /\ UNCHANGED not_mt
    /\ mt_pc = "iter"
    /\ Len(mt_out) >= Len(TableByPatchnum(LoadSounds, CoastSounds))
    /\ mt_pc' = "done"
    /\ UNCHANGED <<viv, mt_out, mt_error>>

TablePatchnums == {-1, 1, 65}

SamplePatchnums == {1, 2, 65}

\* the body of a table file: volume and pitch tell the entries apart
TableBody(patchnums, base) ==
    [ patchnum |-> patchnums,
      volume   |-> [i \in 1..Len(patchnums) |-> base + i],
      pitch    |-> [i \in 1..Len(patchnums) |-> base + 10 * i] ]

PatchnumLists == UNION { [1..n -> TablePatchnums] : n \in 0..MaxEntries }

InitMerge ==
    /\ IdleRefpack
    /\ IdleAdpcm
    /\ IdleTrOpen
    /\ IdleResources
    /\ IdleRaise
    /\ IdleFrd
    /\ IdleBnk
    /\ IdleObjects
    /\ IdleFsh
    /\ IdleTrack
    /\ IdleMesh
    /\ IdleWalls
    /\ \E present \in BOOLEAN, keys \in SUBSET SamplePatchnums,
          l \in PatchnumLists, c \in PatchnumLists :
          viv = [ present |-> present,
                  samples |-> [p \in keys |-> <<"stream", p>>],
                  ltb     |-> TableBody(l, 100),
                  ctb     |-> TableBody(c, 200) ]
    /\ mt_pc = "call"
    /\ mt_out = <<>>
    /\ mt_error = ""

NextMerge ==
    \/ EngineAudioReturn
    \/ EngineAudioValueError
    \/ MergeNext
    \/ MergeKeyError
    \/ MergeStop

SpecMerge == InitMerge /\ [][NextMerge]_vars

-----------------------------------------------------------------------------
(* BnkAudioStream *)

MaxSamples == 56     \* largest num_samples of a generated header

\* more_itertools.only(values, default) of at most one value
TlvOnly(values, default) == IF values = <<>> THEN default ELSE values[1]

\* data = num_samples * num_channels * bytes_per_sample, a quarter of it
\* (floor) for compression 0x07
DataSize(num_samples, channels, bytes_per_sample, compression) ==
    LET data == num_samples * channels * bytes_per_sample
    IN IF compression = 7 THEN data \div 4 ELSE data

\* the argument of stream.read_bytes
BnkReadSize ==
    DataSize(bnk_header.num_samples[1],
             TlvOnly(bnk_header.channels, 1),
             TlvOnly(bnk_header.bytes_per_sample, 2),
             TlvOnly(bnk_header.compression_type, 0))

\* one() raises ValueError when the header has no num_samples TLV
BnkInitValueError ==
    /\ UNCHANGED not_bnk
    /\ bnk_pc = "init"
    /\ bnk_header.num_samples = <<>>
    /\ bnk_pc' = "ValueError"
    /\ UNCHANGED <<bnk_header, bnk_stream, bnk_samples>>

\* self.samples = stream.read_bytes(data)
BnkInitRead ==
    /\ UNCHANGED not_bnk
    /\ bnk_pc = "init"
    /\ bnk_header.num_samples # <<>>
    /\ BnkReadSize <= bnk_stream
    /\ bnk_samples' = BnkReadSize
    /\ bnk_stream' = bnk_stream - BnkReadSize
    /\ bnk_pc' = "read"
    /\ UNCHANGED bnk_header

\* read_bytes raises EOFError when the stream holds fewer bytes
BnkInitEof ==
    /\ UNCHANGED not_bnk
    /\ bnk_pc = "init"
    /\ bnk_header.num_samples # <<>>
    /\ BnkReadSize > bnk_stream
    /\ bnk_pc' = "EOFError"
    /\ UNCHANGED <<bnk_header, bnk_stream, bnk_samples>>

Optional(S) == {<<>>} \cup { <<v>> : v \in S }

StreamSizes == {0, 20, 1000}

InitBnk ==
    /\ IdleRefpack
    /\ IdleAdpcm
    /\ IdleTrOpen
    /\ IdleResources
    /\ IdleRaise
    /\ IdleFrd
    /\ IdleMerge
    /\ IdleObjects
    /\ IdleFsh
    /\ IdleTrack
    /\ IdleMesh
    /\ IdleWalls
    /\ bnk_header \in [ num_samples      : Optional(0..MaxSamples),
                        channels         : Optional({2}),
                        bytes_per_sample : Optional({1}),
                        compression_type : Optional({0, 7}) ]
    /\ bnk_stream \in StreamSizes
    /\ bnk_pc = "init"
    /\ bnk_samples = 0

NextBnk ==
    \/ BnkInitValueError
    \/ BnkInitRead
    \/ BnkInitEof

SpecBnk == InitBnk /\ [][NextBnk]_vars


-----------------------------------------------------------------------------
(* FrdData.objects and TrackData.objects (frd_data.py:104-176, 304-311,    *)
(* track_data.py:201-211, 308-311)                                         *)
(*                                                                         *)
(* The parsed file holds one segment with its object_attributes and a list *)
(* of object headers, each in the segment or global (no segment).  One     *)
(* step of the iterator TrackData.objects makes the next TrackObject       *)
(* (FrdData._make_object) and finalizes it (TrackData._finalize_object).   *)

MaxObjects == 1      \* object headers in a generated file
MaxAttributes == 2   \* entries of segment.object_attributes

ObjectTypes == {"normal", "animated", "special", "billboard"}

CollisionTypes == {"none", "static", "destructible"}

\* seq[i] of a Python list: a negative index counts from the end
IndexInRange(seq, i) == -Len(seq) <= i /\ i < Len(seq)

GetItem(seq, i) == IF i >= 0 THEN seq[i + 1] ELSE seq[Len(seq) + i + 1]

\* segment is <<>> for None and <<segment>> for a segment
GetObjectCollisionType(segment, obj) ==
    IF (obj.type # "normal" /\ obj.type # "billboard") \/ segment = <<>>
    THEN "none"
    ELSE IF IndexInRange(segment[1].object_attributes, obj.attribute_index)
         THEN GetItem(segment[1].object_attributes,
                      obj.attribute_index).collision_type
         ELSE "none"    \* suppress(IndexError)

\* the fields of the TrackObject that _make_object derives from the header;
\* an absent Optional field is <<>>
MakeObject(segment, obj) ==
    [ mesh           |-> obj.mesh,
      collision_type |-> GetObjectCollisionType(segment, obj),
      location       |-> IF obj.type \in {"normal", "billboard", "special"}
                         THEN <<obj.location>> ELSE <<>>,
      actions        |-> IF obj.type = "animated"
                         THEN << [ action    |-> "DEFAULT_LOOP",
                                   animation |-> obj.animation ] >>
                         ELSE <<>>,
      transform      |-> IF obj.type = "special"
                         THEN <<obj.transform>> ELSE <<>> ]

ANIMATION_ACTIONS ==
    << <<"DESTROY_LOW_SPEED", "TR02.CAN">>,
       <<"DESTROY_HIGH_SPEED", "TR03.CAN">> >>

\* tr_can_open and the list built in TrackData.objects: the animation of a
\* file is named by the file
CanActions ==
    [ i \in 1..Len(ANIMATION_ACTIONS) |->
        [ action    |-> ANIMATION_ACTIONS[i][1],
          animation |-> ANIMATION_ACTIONS[i][2] ] ]

RECURSIVE FilterDestroy(_)
FilterDestroy(actions) ==
    IF actions = <<>> THEN <<>>
    ELSE IF Head(actions).action
               \in {"DESTROY_LOW_SPEED", "DESTROY_HIGH_SPEED"}
         THEN <<Head(actions)>> \o FilterDestroy(Tail(actions))
         ELSE FilterDestroy(Tail(actions))

FinalizeObjectAnyCollision(actions, obj) ==
    [obj EXCEPT !.actions = obj.actions \o FilterDestroy(actions)]

FinalizeObject(actions, obj) ==
    IF obj.collision_type = "destructible"
    THEN [obj EXCEPT !.actions = obj.actions \o FilterDestroy(actions)]
    ELSE [obj EXCEPT !.actions = obj.actions]

ObjectsNext ==
    /\ ob_pc = "iter"
    /\ Len(ob_out) < Len(ob_frd.objects)
    /\ LET obj     == ob_frd.objects[Len(ob_out) + 1]
           segment == IF obj.scope = "segment" THEN <<ob_frd.segment>>
                      ELSE <<>>
           made    == MakeObject(segment, obj)
       IN  /\ ob_made' = Append(ob_made, made)
           /\ ob_out' = Append(ob_out, FinalizeObject(CanActions, made))
    /\ UNCHANGED <<ob_frd, ob_pc>>
    /\ UNCHANGED not_ob

ObjectsStop ==
    /\ ob_pc = "iter"
    /\ Len(ob_out) = Len(ob_frd.objects)
    /\ ob_pc' = "stopped"
    /\ UNCHANGED <<ob_frd, ob_made, ob_out>>
    /\ UNCHANGED not_ob

AttributeIndexes == (-MaxAttributes)..MaxAttributes

ObjectHeaders ==
    [ scope           : {"segment", "global"},
      type            : ObjectTypes,
      attribute_index : AttributeIndexes,
      mesh            : {"mesh0"},
      location        : {"loc0"},
      animation       : {"anim0"},
      transform       : {"matrix0"} ]

ObjectAttributeLists ==
    UNION { [ 1..n -> [ collision_type : CollisionTypes ] ]
            : n \in 0..MaxAttributes }

ObjectLists == UNION { [ 1..n -> ObjectHeaders ] : n \in 0..MaxObjects }

InitObjects ==
    /\ IdleRefpack
    /\ IdleAdpcm
    /\ IdleTrOpen
    /\ IdleResources
    /\ IdleRaise
    /\ IdleFrd
    /\ IdleMerge
    /\ IdleBnk
    /\ IdleFsh
    /\ IdleTrack
    /\ IdleMesh
    /\ IdleWalls
    /\ ob_frd \in [ segment : [ object_attributes : ObjectAttributeLists ],
                    objects : ObjectLists ]
    /\ ob_pc = "iter"
    /\ ob_made = <<>>
    /\ ob_out = <<>>

NextObjects ==
    \/ ObjectsNext
    \/ ObjectsStop

SpecObjects == InitObjects /\ [][NextObjects]_vars


-----------------------------------------------------------------------------
(* FshData._make_resource (fsh_data.py:38-104)                             *)
(*                                                                         *)
(* A resource is a name and a list of data blocks, each with a code and    *)
(* its data: colour indices for bitmap8, colours for the other bitmaps and *)
(* the palette (field data), and for a text block the text (field text),   *)
(* as the list of the tokens it is made of: "<mirrored>" in text_data is   *)
(* the token being in the list.                                            *)

MaxBlocks == 3       \* data blocks in a generated resource

BitmapCodes == <<"bitmap8", "bitmap32", "bitmap16", "bitmap16_alpha">>

\* _get_data_by_code
GetDataByCode(codes, resource) ==
    LET InCodes(x) == \E i \in 1..Len(codes) : codes[i] = x.code
    IN SelectSeq(resource.body.blocks, InCodes)

\* struct.pack("<nI", ...): 4 bytes for every value, lowest first
RECURSIVE PackU4(_)
PackU4(values) ==
    IF values = <<>> THEN <<>>
    ELSE LET v == Head(values)
         IN << v % 256, (v \div 256) % 256, (v \div 65536) % 256,
               (v \div 16777216) % 256 >> \o PackU4(Tail(values))

\* what _make_bitmap ends in: one() of the bitmap blocks, one() of the
\* palette blocks of a bitmap8, and the palette lookup of every index
MakeBitmapError(resource) ==
    LET bitmaps  == GetDataByCode(BitmapCodes, resource)
        palettes == GetDataByCode(<<"palette">>, resource)
    IN IF Len(bitmaps) # 1 THEN "ValueError"
       ELSE IF bitmaps[1].code # "bitmap8" THEN ""
       ELSE IF Len(palettes) # 1 THEN "ValueError"
       ELSE IF \E i \in 1..Len(bitmaps[1].data) :
                   bitmaps[1].data[i] >= Len(palettes[1].data)
            THEN "IndexError"
            ELSE ""

\* the Bitmap of _make_bitmap when it returns
MakeBitmap(resource) ==
    LET bitmap   == GetDataByCode(BitmapCodes, resource)[1]
        palette_colors == GetDataByCode(<<"palette">>, resource)[1].data
        rgba_int == IF bitmap.code = "bitmap8"
                    THEN [ i \in 1..Len(bitmap.data) |->
                             palette_colors[bitmap.data[i] + 1] ]
                    ELSE bitmap.data
    IN [ width  |-> bitmap.width,
         height |-> bitmap.height,
         data   |-> PackU4(rgba_int) ]

\* text_data: <<>> for None, <<data>> for the data of the text block
TextData(resource) ==
    LET texts == GetDataByCode(<<"text">>, resource)
    IN IF texts = <<>> THEN <<>> ELSE <<texts[1].text>>

MarkerInTextOrNone(marker, text_data) ==
    IF text_data # <<>>
    THEN \E i \in 1..Len(text_data[1]) : text_data[1][i] = marker
    ELSE TRUE

\* "<marker>" in text_data if text_data is not None else False
MarkerInText(marker, text_data) ==
    IF text_data # <<>>
    THEN \E i \in 1..Len(text_data[1]) : text_data[1][i] = marker
    ELSE FALSE

BlendModeOf(is_32bit, additive) ==
    IF is_32bit THEN "ALPHA"
    ELSE IF additive THEN "ADDITIVE"
    ELSE "None"

MakeResourceReturn ==
    /\ fsh_pc = "call"
    /\ MakeBitmapError(fsh_resource) = ""
    /\ Len(GetDataByCode(<<"text">>, fsh_resource)) <= 1
    /\ LET bitmap_type ==
               GetDataByCode(BitmapCodes, fsh_resource)[1].code
           text_data == TextData(fsh_resource)
       IN fsh_result' =
            << [ name        |-> fsh_resource.name,
                 image       |-> MakeBitmap(fsh_resource),
                 mirrored    |-> MarkerInText("<mirrored>", text_data),
                 nonmirrored |-> MarkerInText("<nonmirrored>", text_data),
                 blend_mode  |->
                     BlendModeOf(bitmap_type = "bitmap32",
                                 MarkerInText("<additive>", text_data)) ] >>
    /\ fsh_pc' = "returned"
    /\ UNCHANGED <<fsh_resource, fsh_error>>
    /\ UNCHANGED not_fsh

\* one() of the bitmap or palette blocks, or only() of the text blocks
MakeResourceValueError ==
    /\ fsh_pc = "call"
    /\ \/ MakeBitmapError(fsh_resource) = "ValueError"
       \/ /\ MakeBitmapError(fsh_resource) = ""
          /\ Len(GetDataByCode(<<"text">>, fsh_resource)) > 1
    /\ fsh_pc' = "raised"
    /\ fsh_error' = "ValueError"
    /\ UNCHANGED <<fsh_resource, fsh_result>>
    /\ UNCHANGED not_fsh

\* palette_colors[element] for an index the palette does not have
MakeResourceIndexError ==
    /\ fsh_pc = "call"
    /\ MakeBitmapError(fsh_resource) = "IndexError"
    /\ fsh_pc' = "raised"
    /\ fsh_error' = "IndexError"
    /\ UNCHANGED <<fsh_resource, fsh_result>>
    /\ UNCHANGED not_fsh

\* a bitmap or palette block with its values; a text block with its tokens
Block(code, data) ==
    [ code |-> code, data |-> data, text |-> <<>>,
      width |-> Len(data), height |-> 1 ]

TextBlock(text) ==
    [ code |-> "text", data |-> <<>>, text |-> text,
      width |-> 0, height |-> 0 ]

DataBlocks ==
    { Block("bitmap8", <<0, 1>>),
      Block("bitmap32", <<16909060>>),
      Block("bitmap16", <<255, 65280>>),
      Block("palette", <<33554687, 16711680>>),
      Block("palette", <<255>>),
      TextBlock(<<"<mirrored>">>),
      TextBlock(<<"<additive>", "<nonmirrored>">>),
      TextBlock(<<>>) }

FshResources ==
    [ name : {"res0"},
      body : [ blocks : UNION { [ 1..n -> DataBlocks ]
                                : n \in 0..MaxBlocks } ] ]

InitFsh ==
    /\ IdleRefpack
    /\ IdleAdpcm
    /\ IdleTrOpen
    /\ IdleResources
    /\ IdleRaise
    /\ IdleFrd
    /\ IdleMerge
    /\ IdleBnk
    /\ IdleObjects
    /\ IdleTrack
    /\ IdleMesh
    /\ IdleWalls
    /\ fsh_resource \in FshResources
    /\ fsh_pc = "call"
    /\ fsh_result = <<>>
    /\ fsh_error = ""

NextFsh ==
    \/ MakeResourceReturn
    \/ MakeResourceValueError
    \/ MakeResourceIndexError

SpecFsh == InitFsh /\ [][NextFsh]_vars


-----------------------------------------------------------------------------
(* TrackData lookup tables (track_data.py:155-157, 334-365, 429-454)       *)
(*                                                                         *)
(* get_polygon_material, lights and audio_sources called in any order on   *)
(* one TrackData.  A dict is the set of its <<key, value>> pairs.  The     *)
(* iterators lights and audio_sources return are consumed to their end by  *)
(* the caller; the values made before an exception are kept in td_last.    *)

MaxLookups == 2      \* lookups called on one TrackData

DictHas(d, k) == \E p \in d : p[1] = k

DictGet(d, k) == (CHOOSE p \in d : p[1] = k)[2]

\* dict(pairs): the last value of a key stays
DictOf(pairs) ==
    { pairs[i] : i \in { j \in 1..Len(pairs) :
                           \A l \in (j + 1)..Len(pairs) :
                               pairs[l][1] # pairs[j][1] } }

\* unique_named_resources as a function of the list and the dict count
RECURSIVE UniqueNamedResources(_, _)
UniqueNamedResources(iterable, count) ==
    IF iterable = <<>> THEN <<>>
    ELSE LET item == Head(iterable)
             k == item.name
             repeats == Repeats(count, k)
         IN <<MakeUniqueName(item, repeats)>>
               \o UniqueNamedResources(
                      Tail(iterable),
                      [ n \in DOMAIN count \cup {k} |->
                          IF n = k THEN repeats ELSE count[n] ])

\* the resources of the atlas _init_resources keeps
FilteredResources(qfs, mirrored) ==
    LET Keep(resource) == IF mirrored THEN ~resource.nonmirrored
                          ELSE ~resource.mirrored
    IN SelectSeq(qfs, Keep)

\* _init_resources: the new values of self.resources and self.sfx_resources
InitResourcesTable(files) ==
    LET unique_named ==
            UniqueNamedResources(
                FilteredResources(files.qfs, files.mirrored), <<>>)
    IN DictOf([ i \in 1..Len(unique_named) |-> <<i - 1, unique_named[i]>> ])

InitSfxResourcesTable(files) ==
    DictOf([ i \in 1..Len(files.sfx) |-> <<files.sfx[i].name, files.sfx[i]>> ])

\* if not self.resources / if not self.light_glows
NeedsInit(table) == table = {}

\* the key get_polygon_material looks up, and the dict it looks it up in
MaterialKeyFound(polygon, res, sfx) ==
    IF polygon.is_lane
    THEN DictHas(sfx, "lin" \o ToString(polygon.material))
    ELSE DictHas(res, polygon.material)

MaterialOf(polygon, res, sfx) ==
    IF polygon.is_lane
    THEN DictGet(sfx, "lin" \o ToString(polygon.material))
    ELSE DictGet(res, polygon.material)

PolygonArguments == [ material : {0, 2}, is_lane : BOOLEAN ]

\* the tables after "if not self.resources: self._init_resources()"
ResourcesAfterInit ==
    IF NeedsInit(resources) THEN InitResourcesTable(td_files) ELSE resources

SfxResourcesAfterInit ==
    IF NeedsInit(resources) THEN InitSfxResourcesTable(td_files)
    ELSE sfx_resources

GetPolygonMaterialReturn ==
    \E polygon \in PolygonArguments :
       /\ td_calls < MaxLookups
       /\ MaterialKeyFound(polygon, ResourcesAfterInit, SfxResourcesAfterInit)
       /\ resources' = ResourcesAfterInit
       /\ sfx_resources' = SfxResourcesAfterInit
       /\ td_inits' = IF NeedsInit(resources) THEN td_inits + 1 ELSE td_inits
       /\ td_calls' = td_calls + 1
       /\ td_last' =
            [ op      |-> "get_polygon_material",
              lane    |-> polygon.is_lane,
              key     |-> polygon.material,
              outcome |-> "returned",
              values  |-> << MaterialOf(polygon, ResourcesAfterInit,
                                        SfxResourcesAfterInit) >> ]
       /\ UNCHANGED <<td_files, light_glows>>
       /\ UNCHANGED not_td

GetPolygonMaterialKeyError ==
    \E polygon \in PolygonArguments :
       /\ td_calls < MaxLookups
       /\ ~MaterialKeyFound(polygon, ResourcesAfterInit, SfxResourcesAfterInit)
       /\ resources' = ResourcesAfterInit
       /\ sfx_resources' = SfxResourcesAfterInit
       /\ td_inits' = IF NeedsInit(resources) THEN td_inits + 1 ELSE td_inits
       /\ td_calls' = td_calls + 1
       /\ td_last' =
            [ op      |-> "get_polygon_material",
              lane    |-> polygon.is_lane,
              key     |-> polygon.material,
              outcome |-> "KeyError",
              values  |-> <<>> ]
       /\ UNCHANGED <<td_files, light_glows>>
       /\ UNCHANGED not_td

\* the loop of lights over self.ini.glows
GlowTable(files) ==
    DictOf([ i \in 1..Len(files.glows) |->
               <<files.glows[i].identifier, files.glows[i]>> ])

\* _make_light
MakeLight(glows, stub) ==
    LET attributes == DictGet(glows, stub.glow_id)
    IN [ location          |-> stub.location,
         color             |-> attributes.color,
         blink_interval_ms |-> attributes.blink_interval_ms,
         flare_size        |-> attributes.flare_size ]

\* the stubs before the first one whose glow ID is not in the table
RECURSIVE ResolvedPrefix(_, _)
ResolvedPrefix(glows, stubs) ==
    IF stubs = <<>> \/ ~DictHas(glows, Head(stubs).glow_id) THEN <<>>
    ELSE <<Head(stubs)>> \o ResolvedPrefix(glows, Tail(stubs))

\* the table after "if not self.light_glows: ..."
LightGlowsAfterInit ==
    IF NeedsInit(light_glows) THEN GlowTable(td_files) ELSE light_glows

ResolvedStubs == ResolvedPrefix(LightGlowsAfterInit, td_files.light_dummies)

LightsReturn ==
    /\ td_calls < MaxLookups
    /\ Len(ResolvedStubs) = Len(td_files.light_dummies)
    /\ light_glows' = LightGlowsAfterInit
    /\ td_calls' = td_calls + 1
    /\ td_last' =
         [ op      |-> "lights",
           lane    |-> FALSE,
           key     |-> 0,
           outcome |-> "returned",
           values  |-> [ i \in 1..Len(ResolvedStubs) |->
                           MakeLight(LightGlowsAfterInit, ResolvedStubs[i]) ] ]
    /\ UNCHANGED <<td_files, resources, sfx_resources, td_inits>>
    /\ UNCHANGED not_td

\* _make_light raises KeyError when the iterator reaches the stub
LightsKeyError ==
    /\ td_calls < MaxLookups
    /\ Len(ResolvedStubs) < Len(td_files.light_dummies)
    /\ light_glows' = LightGlowsAfterInit
    /\ td_calls' = td_calls + 1
    /\ td_last' =
         [ op      |-> "lights",
           lane    |-> FALSE,
           key     |-> td_files.light_dummies[Len(ResolvedStubs) + 1].glow_id,
           outcome |-> "KeyError",
           values  |-> [ i \in 1..Len(ResolvedStubs) |->
                           MakeLight(LightGlowsAfterInit, ResolvedStubs[i]) ] ]
    /\ UNCHANGED <<td_files, resources, sfx_resources, td_inits>>
    /\ UNCHANGED not_td

AUDIO_MAPPING == { <<"HILLS", 12>>, <<"HOMETOWN", 0>> }

\* _make_audio_source: <<>> for None
MakeAudioSource(bnk, dummy) ==
    IF DictHas(bnk, dummy.patch)
    THEN << [ streams  |-> DictGet(bnk, dummy.patch),
              location |-> dummy.location ] >>
    ELSE <<>>    \* except KeyError: logger.exception(e); return None

\* filter_map(_make_audio_source, sound_dummies)
RECURSIVE FilterMapAudio(_, _)
FilterMapAudio(bnk, dummies) ==
    IF dummies = <<>> THEN <<>>
    ELSE MakeAudioSource(bnk, Head(dummies))
            \o FilterMapAudio(bnk, Tail(dummies))

AudioSourcesReturn ==
    /\ td_calls < MaxLookups
    /\ DictHas(AUDIO_MAPPING, td_files.name)
    /\ td_files.bank # <<>>
    /\ td_calls' = td_calls + 1
    /\ td_last' =
         [ op      |-> "audio_sources",
           lane    |-> FALSE,
           key     |-> 0,
           outcome |-> "returned",
           values  |-> FilterMapAudio(DictOf(td_files.bank[1]),
                                      td_files.sound_dummies) ]
    /\ UNCHANGED <<td_files, resources, sfx_resources, light_glows, td_inits>>
    /\ UNCHANGED not_td

\* AUDIO_MAPPING[track_name] for a track that is not in the mapping
AudioSourcesKeyError ==
    /\ td_calls < MaxLookups
    /\ ~DictHas(AUDIO_MAPPING, td_files.name)
    /\ td_calls' = td_calls + 1
    /\ td_last' = [ op |-> "audio_sources", lane |-> FALSE, key |-> 0,
                    outcome |-> "KeyError", values |-> <<>> ]
    /\ UNCHANGED <<td_files, resources, sfx_resources, light_glows, td_inits>>
    /\ UNCHANGED not_td

\* tr_open finds no TRAMnn.BNK
AudioSourcesFileNotFound ==
    /\ td_calls < MaxLookups
    /\ DictHas(AUDIO_MAPPING, td_files.name)
    /\ td_files.bank = <<>>
    /\ td_calls' = td_calls + 1
    /\ td_last' = [ op |-> "audio_sources", lane |-> FALSE, key |-> 0,
                    outcome |-> "FileNotFoundError", values |-> <<>> ]
    /\ UNCHANGED <<td_files, resources, sfx_resources, light_glows, td_inits>>
    /\ UNCHANGED not_td

AtlasResource(name, image, mirrored, nonmirrored) ==
    [ name |-> name, image |-> image, mirrored |-> mirrored,
      nonmirrored |-> nonmirrored, blend_mode |-> "None" ]

AtlasInputs ==
    { <<>>,
      << AtlasResource("a", "img1", TRUE, FALSE) >>,
      << AtlasResource("a", "img0", FALSE, FALSE) >>,
      << AtlasResource("a", "img0", FALSE, FALSE),
         AtlasResource("a", "img1", FALSE, TRUE),
         AtlasResource("b", "img0", FALSE, FALSE) >> }

SfxInputs == { <<>>, << AtlasResource("lin0", "img0", FALSE, FALSE) >> }

Glow(identifier) ==
    [ identifier |-> identifier, color |-> identifier + 10,
      blink_interval_ms |-> 0, flare_size |-> 1 ]

GlowInputs == { <<>>, << Glow(1), Glow(2) >> }

LightStub(glow_id) == [ location |-> "loc0", glow_id |-> glow_id ]

LightDummyInputs == { <<>>, << LightStub(1) >>, << LightStub(2), LightStub(3) >> }

SoundStub(patch) == [ location |-> "loc0", patch |-> patch ]

SoundDummyInputs == { << SoundStub(5) >>, << SoundStub(6), SoundStub(5) >> }

\* the file of the bank: <<>> when tr_open finds none, else its sound_streams
BankInputs == { <<>>, << << <<5, "stream5">> >> >> }

InitTrack ==
    /\ IdleRefpack
    /\ IdleAdpcm
    /\ IdleTrOpen
    /\ IdleResources
    /\ IdleRaise
    /\ IdleFrd
    /\ IdleMerge
    /\ IdleBnk
    /\ IdleObjects
    /\ IdleFsh
    /\ IdleMesh
    /\ IdleWalls
    /\ td_files \in [ qfs           : AtlasInputs,
                      sfx           : SfxInputs,
                      mirrored      : BOOLEAN,
                      glows         : GlowInputs,
                      light_dummies : LightDummyInputs,
                      sound_dummies : SoundDummyInputs,
                      bank          : BankInputs,
                      name          : {"HILLS", "MYTRACK"} ]
    /\ resources = {}
    /\ sfx_resources = {}
    /\ light_glows = {}
    /\ td_inits = 0
    /\ td_calls = 0
    /\ td_last = <<>>

NextTrack ==
    \/ GetPolygonMaterialReturn
    \/ GetPolygonMaterialKeyError
    \/ LightsReturn
    \/ LightsKeyError
    \/ AudioSourcesReturn
    \/ AudioSourcesKeyError
    \/ AudioSourcesFileNotFound

SpecTrack == InitTrack /\ [][NextTrack]_vars


-----------------------------------------------------------------------------
(* remove_unused_vertices and merge_mesh on indices (utils.py:114-158)     *)
(*                                                                         *)
(* A mesh is a list of vertices and a list of polygons whose faces hold    *)
(* indices (from 0) into the list.  remove_unused_vertices makes the list  *)
(* of the used vertices from a set: its order is whatever the set's        *)
(* iteration gives, any order of the distinct used vertices here.          *)

MaxVertices == 3     \* vertices of a generated mesh
MaxFaces == 2        \* polygons of a generated mesh

\* set(map(partial(getitem, mesh.vertices), used_vertice_idx))
UsedVertexSet(mesh) ==
    UNION { { mesh.vertices[mesh.polygons[n].face[i] + 1] :
              i \in 1..Len(mesh.polygons[n].face) } :
            n \in 1..Len(mesh.polygons) }

\* the lists list(S) can be: the elements of S, once each, in any order
ListsOfSet(S) ==
    { s \in [ 1..Cardinality(S) -> S ] :
        \A i \in 1..Cardinality(S) : \A j \in 1..Cardinality(S) :
            i # j => s[i] # s[j] }

\* mapping = {v: i for i, v in enumerate(used_vertices)}
IndexOfVertex(used_vertices, v) ==
    (CHOOSE i \in 1..Len(used_vertices) : used_vertices[i] = v) - 1

\* remove_unused_vertices, given the list made of the set
RemoveUnusedVerticesListed(mesh, used_vertices) ==
    LET MakeFace(polygon) ==
            [ polygon EXCEPT
                !.face = [ i \in 1..Len(polygon.face) |->
                             IndexOfVertex(used_vertices,
                                 mesh.vertices[polygon.face[i] + 1]) ] ]
    IN [ mesh EXCEPT
           !.vertices = used_vertices,
           !.polygons = [ n \in 1..Len(mesh.polygons) |->
                            MakeFace(mesh.polygons[n]) ] ]

MergeMeshUnshifted(a, b) ==
    [ a EXCEPT !.vertices = a.vertices \o b.vertices,
               !.polygons = a.polygons \o b.polygons ]

\* merge_mesh
MergeMesh(a, b) ==
    LET RemapIdx(polygon) ==
            [ polygon EXCEPT
                !.face = [ i \in 1..Len(polygon.face) |->
                             polygon.face[i] + Len(a.vertices) ] ]
    IN [ a EXCEPT
           !.vertices = a.vertices \o b.vertices,
           !.polygons = a.polygons
                           \o [ n \in 1..Len(b.polygons) |->
                                  RemapIdx(b.polygons[n]) ] ]

RemoveUnusedVerticesCall ==
    /\ ms_pc = "call"
    /\ \E used_vertices \in ListsOfSet(UsedVertexSet(ms_a)) :
          ms_result' = RemoveUnusedVerticesListed(ms_a, used_vertices)
    /\ ms_pc' = "removed"
    /\ UNCHANGED <<ms_a, ms_b>>
    /\ UNCHANGED not_ms

MergeMeshCall ==
    /\ ms_pc = "call"
    /\ ms_result' = MergeMesh(ms_a, ms_b)
    /\ ms_pc' = "merged"
    /\ UNCHANGED <<ms_a, ms_b>>
    /\ UNCHANGED not_ms

MeshVertices ==
    { [ location |-> Vec(0, 0, 0), normal |-> "None", color |-> "None" ],
      [ location |-> Vec(1, 0, 0), normal |-> "None", color |-> "None" ] }

\* faces over n vertices: a triangle from every vertex on, and one with a
\* repeated index
FacesOver(n) ==
    { << i, (i + 1) % n, (i + 2) % n >> : i \in 0..(n - 1) }
    \cup (IF n > 0 THEN { << n - 1, n - 1, 0 >> } ELSE {})

CollisionPolygonOf(face) ==
    [ face |-> face, edges |-> IF face[1] = 0 THEN <<"FRONT">> ELSE <<>>,
      has_finite_height |-> FALSE, has_wall_collision |-> face[1] = 0 ]

MeshInputs ==
    UNION { [ vertices : [ 1..n -> MeshVertices ],
              polygons : UNION { [ 1..m -> { CollisionPolygonOf(f) :
                                             f \in FacesOver(n) } ]
                                 : m \in 0..MaxFaces },
              collision_effect : {0} ]
            : n \in 0..MaxVertices }

SecondMeshInputs ==
    { [ vertices |-> <<>>, polygons |-> <<>>, collision_effect |-> 1 ],
      [ vertices |-> << [ location |-> Vec(0, 0, 0), normal |-> "None",
                          color |-> "None" ],
                        [ location |-> Vec(0, 1, 0), normal |-> "None",
                          color |-> "None" ] >>,
        polygons |-> << CollisionPolygonOf(<<0, 1, 0>>),
                        CollisionPolygonOf(<<1, 1, 0, 0>>) >>,
        collision_effect |-> 1 ] }

InitMesh ==
    /\ IdleRefpack
    /\ IdleAdpcm
    /\ IdleTrOpen
    /\ IdleResources
    /\ IdleRaise
    /\ IdleFrd
    /\ IdleMerge
    /\ IdleBnk
    /\ IdleObjects
    /\ IdleFsh
    /\ IdleTrack
    /\ IdleWalls
    /\ ms_a \in MeshInputs
    /\ ms_b \in SecondMeshInputs
    /\ ms_pc = "call"
    /\ ms_result = <<>>

NextMesh ==
    \/ RemoveUnusedVerticesCall
    \/ MergeMeshCall

SpecMesh == InitMesh /\ [][NextMesh]_vars


-----------------------------------------------------------------------------
(* TrackData.track_segments (track_data.py:213-229, 250-292, 313-328)      *)
(*                                                                         *)
(* The segments are the TrackSegments FrdData.track_segments makes, so a   *)
(* collision mesh is kept as remove_unused_vertices leaves it, up to the   *)
(* order of its vertex list: a face lists the vertices its indices select, *)
(* and two indices of such a mesh are equal exactly when their vertices    *)
(* are.  The wall mesh goes through remove_unused_vertices again, so the   *)
(* order in which the edge vertices are listed leaves no trace in it.      *)

MaxWallSegments == 2     \* segments of a generated track

EdgeNames == <<"FRONT", "LEFT", "BACK", "RIGHT">>

HasEdge(polygon, edge) ==
    \E i \in 1..Len(polygon.edges) : polygon.edges[i] = edge

\* the side k (from 0) goes from face[k] to face[(k + 1) % 4]
SideEnd(k) == (k + 1) % 4

\* _select_wall_edge_idx reads a face index the face does not have
SelectWallEdgeIdxRaises(polygon) ==
    \E k \in 0..3 :
        /\ HasEdge(polygon, EdgeNames[k + 1])
        /\ (k + 1 > Len(polygon.face) \/ SideEnd(k) + 1 > Len(polygon.face))

\* _select_wall_edge_idx when it returns
SelectWallEdgeIdx(polygon) ==
    LET face == polygon.face
        Side(k) == IF HasEdge(polygon, EdgeNames[k + 1])
                      /\ face[k + 1] # face[SideEnd(k) + 1]
                   THEN << <<face[SideEnd(k) + 1], face[k + 1]>> >>
                   ELSE <<>>
    IN Side(0) \o Side(1) \o Side(2) \o Side(3)

\* the polygons _make_polygon_wall makes walls of
WallPolygons(mesh) ==
    LET Walled(x) == x.has_wall_collision /\ x.edges # <<>>
    IN SelectSeq(mesh.polygons, Walled)

\* collapse(edges, base_type=tuple)
WallEdges(mesh) ==
    Flatten([ i \in 1..Len(WallPolygons(mesh)) |->
                SelectWallEdgeIdx(WallPolygons(mesh)[i]) ])

\* RoadEffect.not_driveable, the default collision_effect
NotDriveable == -1

\* make_polygon of _make_polygon_wall: (a, b, raised b, raised a)
MakeWallPolygon(heights, edge) ==
    [ face               |-> << edge[1], edge[2],
                                RaisedVertex(heights, edge[2]),
                                RaisedVertex(heights, edge[1]) >>,
      edges              |-> <<>>,
      has_finite_height  |-> FALSE,
      has_wall_collision |-> FALSE ]

\* the exception _make_polygon_wall ends in ("" when it returns)
MakePolygonWallError(heights, mesh) ==
    IF \E i \in 1..Len(WallPolygons(mesh)) :
           SelectWallEdgeIdxRaises(WallPolygons(mesh)[i])
    THEN "IndexError"
    ELSE IF WallEdges(mesh) # <<>> /\ heights = <<>>
         THEN "ValueError"     \* min() of no heights in _raise_vertex
         ELSE ""

\* _make_polygon_wall when it returns: <<>> for None, else the wall mesh
MakePolygonWall(heights, mesh) ==
    LET wall_polygons == [ i \in 1..Len(WallEdges(mesh)) |->
                             MakeWallPolygon(heights, WallEdges(mesh)[i]) ]
    IN IF wall_polygons = <<>> THEN <<>>
       ELSE << [ vertices |->
                     UNION { { wall_polygons[i].face[k] : k \in 1..4 } :
                             i \in 1..Len(wall_polygons) },
                 polygons         |-> wall_polygons,
                 collision_effect |-> NotDriveable ] >>

\* merge_mesh on meshes kept up to the order of their vertices (a vertex of
\* a equal to one of b is in the merged list twice, in the set once)
MergeMeshUpToOrder(a, b) ==
    [ a EXCEPT !.vertices = a.vertices \cup b.vertices,
               !.polygons = a.polygons \o b.polygons ]

\* the walls of the meshes that have one, in order
RECURSIVE FilteredWalls(_, _)
FilteredWalls(heights, meshes) ==
    IF meshes = <<>> THEN <<>>
    ELSE MakePolygonWall(heights, Head(meshes))
            \o FilteredWalls(heights, Tail(meshes))

\* reduce(merge_mesh, filtered) of a list that is not empty
RECURSIVE ReduceMerge(_)
ReduceMerge(walls) ==
    IF Len(walls) = 1 THEN walls[1]
    ELSE MergeMeshUpToOrder(ReduceMerge(SubSeq(walls, 1, Len(walls) - 1)),
                            walls[Len(walls)])

\* the exception _make_walls ends in: the first one of a mesh, or the
\* TypeError of reduce() over nothing
RECURSIVE FirstWallError(_, _)
FirstWallError(heights, meshes) ==
    IF meshes = <<>> THEN ""
    ELSE IF MakePolygonWallError(heights, Head(meshes)) # ""
         THEN MakePolygonWallError(heights, Head(meshes))
         ELSE FirstWallError(heights, Tail(meshes))

MakeWallsError(heights, segment) ==
    IF FirstWallError(heights, segment.collision_meshes) # ""
    THEN FirstWallError(heights, segment.collision_meshes)
    ELSE IF FilteredWalls(heights, segment.collision_meshes) = <<>>
         THEN "TypeError"
         ELSE ""

\* _finalize_segment when it returns
FinalizeSegment(heights, segment) ==
    LET floor == segment.collision_meshes
        wall  == ReduceMerge(FilteredWalls(heights, segment.collision_meshes))
    IN [ segment EXCEPT !.collision_meshes = floor \o <<wall>> ]

\* accumulate(...): the number of waypoints of the segments before the j-th
RECURSIVE HeightIdx(_, _)
HeightIdx(segments, j) ==
    IF j <= 1 THEN 0
    ELSE HeightIdx(segments, j - 1) + Len(segments[j - 1].waypoints)

\* the waypoints and the heights slicen() gives for the j-th segment
SegmentWaypoints(segments, j) == segments[j].waypoints

SegmentHeights(segments, heights, j) ==
    Take(Drop(heights, HeightIdx(segments, j)), Len(segments[j].waypoints))

\* the segment before and the segment after the j-th, around the track
Before(segments, j) == IF j = 1 THEN Len(segments) ELSE j - 1

After(segments, j) == IF j = Len(segments) THEN 1 ELSE j + 1

ChainedWaypoints(segments, j) ==
    SegmentWaypoints(segments, Before(segments, j))
        \o SegmentWaypoints(segments, j)
        \o SegmentWaypoints(segments, After(segments, j))

ChainedHeights(segments, heights, j) ==
    SegmentHeights(segments, heights, Before(segments, j))
        \o SegmentHeights(segments, heights, j)
        \o SegmentHeights(segments, heights, After(segments, j))

\* zip(waypoints, heights, strict=True) of _make_waypoint_height_pair
ZipStrictRaises(segments, heights, j) ==
    Len(ChainedWaypoints(segments, j)) # Len(ChainedHeights(segments, heights, j))

WaypointHeightPairs(segments, heights, j) ==
    [ i \in 1..Len(ChainedWaypoints(segments, j)) |->
        << ChainedWaypoints(segments, j)[i],
           ChainedHeights(segments, heights, j)[i] >> ]

\* the exception the j-th step of the iterator ends in ("" when it yields)
FinalizeError(segments, heights, j) ==
    IF ZipStrictRaises(segments, heights, j) THEN "ValueError"
    ELSE MakeWallsError(WaypointHeightPairs(segments, heights, j),
                        segments[j])

\* list(self.frd.track_segments) of a parsed file
FrdTrackSegments(file) ==
    [ i \in 1..Len(file.segment_data) |->
        MakeTrackSegment(
            file.segment_headers[i], file.segment_data[i],
            IsliceN(file.road_blocks, (i - 1) * ROAD_BLOCKS_PER_SEGMENT,
                    file.segment_headers[i].num_road_blocks)) ]

FinalizeSegmentsNext ==
    /\ ws_pc = "iter"
    /\ Len(ws_out) < Len(ws_segments)
    /\ FinalizeError(ws_segments, ws_heights, Len(ws_out) + 1) = ""
    /\ ws_out' = Append(ws_out,
                        FinalizeSegment(
                            WaypointHeightPairs(ws_segments, ws_heights,
                                                Len(ws_out) + 1),
                            ws_segments[Len(ws_out) + 1]))
    /\ UNCHANGED <<ws_frd, ws_segments, ws_heights, ws_pc, ws_error>>
    /\ UNCHANGED not_ws

FinalizeSegmentsStop ==
    /\ ws_pc = "iter"
    /\ ws_segments # <<>>
    /\ Len(ws_out) = Len(ws_segments)
    /\ ws_pc' = "stopped"
    /\ UNCHANGED <<ws_frd, ws_segments, ws_heights, ws_out, ws_error>>
    /\ UNCHANGED not_ws

\* waypoints_and_heights[-1] of a track without segments, or face[3] of a
\* face of 3 indices in _select_wall_edge_idx
FinalizeSegmentsIndexError ==
    /\ ws_pc = "iter"
    /\ IF ws_segments = <<>> THEN TRUE
       ELSE /\ Len(ws_out) < Len(ws_segments)
            /\ FinalizeError(ws_segments, ws_heights, Len(ws_out) + 1)
                  = "IndexError"
    /\ ws_pc' = "raised"
    /\ ws_error' = "IndexError"
    /\ UNCHANGED <<ws_frd, ws_segments, ws_heights, ws_out>>
    /\ UNCHANGED not_ws

\* zip(strict=True) of waypoints and heights of different lengths, or min()
\* of no heights in _raise_vertex
FinalizeSegmentsValueError ==
    /\ ws_pc = "iter"
    /\ Len(ws_out) < Len(ws_segments)
    /\ FinalizeError(ws_segments, ws_heights, Len(ws_out) + 1) = "ValueError"
    /\ ws_pc' = "raised"
    /\ ws_error' = "ValueError"
    /\ UNCHANGED <<ws_frd, ws_segments, ws_heights, ws_out>>
    /\ UNCHANGED not_ws

\* reduce(merge_mesh, filtered) of a segment without a wall
FinalizeSegmentsTypeError ==
    /\ ws_pc = "iter"
    /\ Len(ws_out) < Len(ws_segments)
    /\ FinalizeError(ws_segments, ws_heights, Len(ws_out) + 1) = "TypeError"
    /\ ws_pc' = "raised"
    /\ ws_error' = "TypeError"
    /\ UNCHANGED <<ws_frd, ws_segments, ws_heights, ws_out>>
    /\ UNCHANGED not_ws

EdgeTags ==
    { <<FALSE, FALSE, FALSE, FALSE>>, <<TRUE, FALSE, FALSE, FALSE>>,
      <<FALSE, FALSE, TRUE, FALSE>>, <<FALSE, TRUE, FALSE, TRUE>>,
      <<TRUE, TRUE, TRUE, TRUE>> }

WallDriveable(polygon, road_effect, tags, wall) ==
    [ polygon            |-> polygon,
      road_effect        |-> road_effect,
      front_edge         |-> tags[1],
      left_edge          |-> tags[2],
      back_edge          |-> tags[3],
      right_edge         |-> tags[4],
      has_finite_height  |-> FALSE,
      has_wall_collision |-> wall ]

\* two polygons in the high-resolution track chunk, the first with the given
\* face
WallChunks(face) ==
    [ EmptyChunks EXCEPT ![5].polygons = << PlainPolygon(4, face),
                                            PlainPolygon(4, QuadFace) >> ]

\* segments with no, one and two driveable polygons, the two in one mesh or
\* in two
WallSegments ==
    { SegmentOf(WallChunks(QuadFace), <<>>) }
    \cup { SegmentOf(WallChunks(face),
                     << WallDriveable(0, 0, tags, wall) >>) :
           face \in {QuadFace, TriangleFace, LeadingTriangleFace},
           tags \in EdgeTags, wall \in BOOLEAN }
    \cup { SegmentOf(WallChunks(face),
                     << WallDriveable(0, 0, tags, TRUE),
                        WallDriveable(1, road_effect,
                                      <<TRUE, FALSE, FALSE, FALSE>>, TRUE) >>) :
           face \in {QuadFace, TriangleFace, LeadingTriangleFace},
           tags \in EdgeTags, road_effect \in {0, 1} }

\* a segment with a wall on every side of a quad
WalledSegment ==
    SegmentOf(WallChunks(QuadFace),
              << WallDriveable(0, 0, <<TRUE, TRUE, TRUE, TRUE>>, TRUE) >>)

\* the file with no road block in any segment
WithoutRoadBlocks(file) ==
    [ file EXCEPT
        !.segment_headers = [ i \in 1..Len(file.segment_headers) |->
                                [ num_road_blocks |-> 0 ] ] ]

WallFrdInputs ==
    { FrdOf(<<>>) }
    \cup UNION { { FrdOf(leading \o <<last>>),
                   WithoutRoadBlocks(FrdOf(leading \o <<last>>)) } :
                 leading \in UNION { [ 1..n -> {WalledSegment} ] :
                                     n \in 0..(MaxWallSegments - 1) },
                 last \in WallSegments }

\* a height for every waypoint, and the list cut short by one
HeightsFor(segments) ==
    LET n == HeightIdx(segments, Len(segments) + 1)
        all == [ k \in 1..n |-> 1 + (k % 2) ]
    IN { all, Take(all, n - 1) }

InitWalls ==
    /\ IdleRefpack
    /\ IdleAdpcm
    /\ IdleTrOpen
    /\ IdleResources
    /\ IdleRaise
    /\ IdleFrd
    /\ IdleMerge
    /\ IdleBnk
    /\ IdleObjects
    /\ IdleFsh
    /\ IdleTrack
    /\ IdleMesh
    /\ ws_frd \in WallFrdInputs
    /\ ws_segments = FrdTrackSegments(ws_frd)
    /\ ws_heights \in HeightsFor(ws_segments)
    /\ ws_pc = "iter"
    /\ ws_out = <<>>
    /\ ws_error = ""

NextWalls ==
    \/ FinalizeSegmentsNext
    \/ FinalizeSegmentsStop
    \/ FinalizeSegmentsIndexError
    \/ FinalizeSegmentsValueError
    \/ FinalizeSegmentsTypeError

SpecWalls == InitWalls /\ [][NextWalls]_vars

-----------------------------------------------------------------------------
(* Refpack: properties *)

\* the input bytes the decoded opcodes account for: opcode bytes and literals
RECURSIVE Reassembled(_)
Reassembled(cs) ==
    IF cs = <<>> THEN <<>>
    ELSE Head(cs).opdata \o Head(cs).data \o Reassembled(Tail(cs))

\* C1: decode returns only when the decoded length equals expanded_length;
\* after the opcode stream has ended, a decoded length other than
\* expanded_length (shorter or longer) ends in the ValueError and in no
\* return.
C1_LengthMismatchIsError ==
    [][ /\ rp_pc' = "returned" =>
              /\ rp_pc = "check"
              /\ Len(decompressed_data') = expanded_length'
        /\ (rp_pc = "check" /\ Len(decompressed_data) # expanded_length) =>
              /\ rp_pc' = "raised"
              /\ rp_error' = "ValueError" ]_vars

C1_Witness ==
    /\ rp_pc = "raised"
    /\ rp_error = "ValueError"
    /\ Len(decompressed_data) > expanded_length
    /\ expanded_length > 0

\* C2: an opcode with reflen > 0 and refdist within the output (literals
\* included) keeps the old output, appends its literals and then reflen
\* bytes, the i-th equal to the byte refdist positions before it in the
\* result, which is the last refdist bytes repeated cyclically.
C2_BackReferenceCopy ==
    [][ Len(cmds') = Len(cmds) + 1 =>
          LET e   == cmds'[Len(cmds')]
              old == decompressed_data
              n   == Len(old) + Len(e.data)
              new == decompressed_data'
          IN  (e.cmd.reflen > 0 /\ e.cmd.refdist <= n) =>
                /\ rp_pc' # "raised"
                /\ Len(new) = n + e.cmd.reflen
                /\ SubSeq(new, 1, n) = old \o e.data
                /\ \A i \in 1..e.cmd.reflen :
                      /\ new[n + i] = new[n + i - e.cmd.refdist]
                      /\ new[n + i] =
                           (old \o e.data)[n - e.cmd.refdist + 1
                                           + ((i - 1) % e.cmd.refdist)] ]_vars

C2_Witness ==
    /\ cmds # <<>>
    /\ rp_error = ""
    /\ LET e == cmds[Len(cmds)]
       IN  /\ e.cmd.refdist = 2
           /\ e.cmd.reflen = 3
           /\ Len(e.data) = 2
           /\ e.data[1] # e.data[2]
           /\ Len(decompressed_data) >= 5

\* C3: an opcode is a stop opcode exactly when it is a 1-byte opcode with
\* first byte >= 0xFC; only the last decoded opcode can be one, the loop
\* runs on while none was seen, and once it is seen the remaining input is
\* what follows its literals, untouched.
C3_StopOnlyOneByteFC ==
    /\ \A i \in 1..Len(cmds) :
          /\ IsStop(cmds[i].cmd) <=>
                (Len(cmds[i].opdata) = 1 /\ cmds[i].opdata[1] >= 252)
          /\ i < Len(cmds) => ~(Len(cmds[i].opdata) = 1 /\ cmds[i].opdata[1] >= 252)
    /\ rp_pc = "decode" =>
          \A i \in 1..Len(cmds) : cmds[i].opdata[1] < 252
    /\ (rp_pc \in {"check", "returned"} \/ rp_error = "ValueError") =>
          /\ cmds # <<>>
          /\ cmds[Len(cmds)].opdata[1] >= 252
          /\ Reassembled(cmds) \o compressed_data = rp_input

C3_Witness ==
    /\ rp_pc = "check"
    /\ Len(cmds) >= 2
    /\ Len(compressed_data) > 0
    /\ cmds[Len(cmds)].cmd.proclen > 0
    /\ Len(cmds[Len(cmds)].data) = cmds[Len(cmds)].cmd.proclen

\* C4: every first byte 0..255 selects one of the four classes by its top
\* bits (never the 'Bad opcode' branch), the opcode takes that many bytes
\* from the input, and proclen, reflen and refdist are the fields of the
\* class, written here with division and remainder.
ClassSize(a) ==
    IF a < 128 THEN 2 ELSE IF a < 192 THEN 3 ELSE IF a < 224 THEN 4 ELSE 1

C4_OpcodeClasses ==
    /\ (rp_pc = "decode" /\ compressed_data # <<>>) =>
          OpcodeSize(compressed_data[1]) = ClassSize(compressed_data[1])
    /\ rp_error # "IndexError" => Reassembled(cmds) \o compressed_data = rp_input
    /\ \A i \in 1..Len(cmds) :
          LET op == cmds[i].opdata
              a  == op[1]
              k  == cmds[i].cmd
          IN  /\ Len(op) = ClassSize(a)
              /\ a < 128 =>
                    /\ k.proclen = a % 4
                    /\ k.reflen = ((a \div 4) % 8) + 3
                    /\ k.refdist = ((a \div 32) % 4) * 256 + op[2] + 1
              /\ (128 <= a /\ a < 192) =>
                    /\ k.proclen = op[2] \div 64
                    /\ k.reflen = (a % 64) + 4
                    /\ k.refdist = (op[2] % 64) * 256 + op[3] + 1
              /\ (192 <= a /\ a < 224) =>
                    /\ k.proclen = a % 4
                    /\ k.reflen = ((a \div 4) % 4) * 256 + op[4] + 5
                    /\ k.refdist = ((a \div 16) % 2) * 65536 + op[2] * 256 + op[3] + 1
              /\ 224 <= a =>
                    /\ k.proclen = (IF a < 252 THEN ((a % 32) + 1) * 4 ELSE a % 4)
                    /\ k.reflen = 0
                    /\ k.refdist = 0

C4_Witness ==
    /\ cmds # <<>>
    /\ Len(cmds[1].opdata) = 4
    /\ cmds[1].cmd.refdist > 65536
    /\ cmds[1].cmd.reflen > 256

\* C5: decode never returns data when an opcode got fewer literal bytes
\* than its proclen because the input was exhausted.
C5_TruncatedNeverReturned ==
    rp_pc = "returned" =>
        \A i \in 1..Len(cmds) : Len(cmds[i].data) = cmds[i].cmd.proclen

-----------------------------------------------------------------------------
(* adpcm_to_s16le: properties *)

\* the first control byte of the frame being decoded
ControlByte == stream[frame * (IF num_channels = 2 THEN 30 ELSE 15) + 1]

InInt16(v) == -32768 <= v /\ v <= 32767

\* clip_int16((sign_extend(nibble, 4) * 2^shift + current * table[n]
\*             + previous * table[n + 4] + 0x80) >> 8)
\* for a nibble 0..15 and a coefficient nibble n, the sum taken exactly
ExpectedSample(nibble, shift, current, previous, n) ==
    LET delta == IF nibble >= 8 THEN nibble - 16 ELSE nibble
        rest  == current * AdpcmTable[n + 1] + previous * AdpcmTable[n + 5] + 128
        sum8  == IF shift >= 8
                 THEN delta * (2 ^ (shift - 8)) + (rest \div 256)
                 ELSE (delta * (2 ^ shift) + rest) \div 256
    IN  IF sum8 > 32767 THEN 32767 ELSE IF sum8 < -32768 THEN -32768 ELSE sum8

\* the two bytes of a little-endian signed 16-bit sample
S16LE(v) ==
    LET w == IF v < 0 THEN v + 65536 ELSE v
    IN  <<w % 256, w \div 256>>

\* C6: every sample byte emits, per nibble, the clipped prediction from its
\* own channel's (current, previous) pair, shift and coefficient nibble, and
\* rolls that pair (previous = old current, current = the sample); the
\* other channel's pair is untouched by it; all samples and all stored
\* values are within the signed 16-bit range.
C6_SamplePrediction ==
    [][ /\ InInt16(current_left_sample') /\ InInt16(previous_left_sample')
        /\ InInt16(current_right_sample') /\ InInt16(previous_right_sample')
        /\ (ad_pc = "sample" /\ reader_pos' = reader_pos + 1) =>
             LET byte == stream[reader_pos + 1]
                 hi   == byte \div 16
                 lo   == byte % 16
                 nl   == ControlByte \div 16
                 nr   == ControlByte % 16
             IN  IF num_channels = 2
                 THEN LET l == ExpectedSample(hi, shift_left, current_left_sample,
                                              previous_left_sample, nl)
                          r == ExpectedSample(lo, shift_right, current_right_sample,
                                              previous_right_sample, nr)
                      IN  /\ current_left_sample' = l
                          /\ previous_left_sample' = current_left_sample
                          /\ current_right_sample' = r
                          /\ previous_right_sample' = current_right_sample
                          /\ output' = output \o S16LE(l) \o S16LE(r)
                 ELSE LET a == ExpectedSample(hi, shift_left, current_left_sample,
                                              previous_left_sample, nl)
                          b == ExpectedSample(lo, shift_left, a,
                                              current_left_sample, nl)
                      IN  /\ previous_left_sample' = a
                          /\ current_left_sample' = b
                          /\ current_right_sample' = current_right_sample
                          /\ previous_right_sample' = previous_right_sample
                          /\ output' = output \o S16LE(a) \o S16LE(b) ]_vars

C6_Witness ==
    /\ num_channels = 2
    /\ ad_pc = "sample"
    /\ iter > 2
    /\ current_left_sample = 32767
    /\ previous_left_sample < 32767
    /\ current_right_sample = -32768

\* C7: while the samples of a frame are decoded, the stereo shifts are 20
\* minus the high and the low nibble of the frame's second byte, both in
\* 5..20; the mono shift is 20 minus the low nibble of the control byte and
\* the header took one byte.
C7_ShiftFromNibbles ==
    (ad_pc = "sample" /\ iter = 0) =>
        IF num_channels = 2
        THEN LET b == stream[frame * 30 + 2]
             IN  /\ shift_left = 20 - (b \div 16)
                 /\ shift_right = 20 - (b % 16)
                 /\ shift_left \in 5..20
                 /\ shift_right \in 5..20
                 /\ reader_pos = frame * 30 + 2
        ELSE /\ shift_left = 20 - (stream[frame * 15 + 1] % 16)
             /\ reader_pos = frame * 15 + 1

\* C8: the decoder never raises and never reads past the end; it decodes
\* floor(len / 30) (stereo) or floor(len / 15) (mono) frames, ignores the
\* partial frame, indexes the table within its 20 entries and emits 28
\* samples per channel per frame.
C8_WholeFramesOnly ==
    LET size  == IF num_channels = 2 THEN 30 ELSE 15
        whole == Len(stream) \div size
    IN  /\ ad_pc # "raised"
        /\ reader_pos <= Len(stream)
        /\ ad_pc \in {"frame", "sample", "returned"} =>
              /\ frame <= whole
              /\ Len(output) = (frame * 28 * num_channels + 2 * iter) * 2
              /\ ad_pc = "sample" => frame < whole /\ reader_pos < Len(stream)
              /\ (ad_pc = "frame" /\ frame < whole) =>
                    /\ reader_pos = frame * size
                    /\ (stream[reader_pos + 1] \div 16) + 4 < Len(AdpcmTable)
                    /\ (stream[reader_pos + 1] % 16) + 4 < Len(AdpcmTable)
        /\ ad_pc = "returned" =>
              /\ frame = whole
              /\ reader_pos = whole * size
              /\ Len(output) = whole * 28 * num_channels * 2

C8_Witness ==
    /\ ad_pc = "returned"
    /\ num_channels = 1
    /\ frame = 2
    /\ reader_pos < Len(stream)
    /\ Len(output) = 112

\* every whole frame selects coefficient index 0 and holds only zero nibbles
ZeroInput ==
    LET size == IF num_channels = 2 THEN 30 ELSE 15
        head == IF num_channels = 2 THEN 2 ELSE 1
    IN  \A k \in 0..((Len(stream) \div size) - 1) :
           /\ IF num_channels = 2
              THEN stream[k * size + 1] = 0
              ELSE stream[k * size + 1] \div 16 = 0
           /\ \A j \in (head + 1)..size : stream[k * size + j] = 0

\* C9: a stream of whole frames with coefficient index 0 and zero nibbles
\* decodes to zero samples only; a second call on the same stream returns
\* what the first returned.
C9_ZeroAndRepeatable ==
    /\ ZeroInput => \A i \in 1..Len(output) : output[i] = 0
    /\ (ad_pc = "returned" /\ ad_calls >= 2) => output = first_output

C9_Witness ==
    /\ ad_pc = "returned"
    /\ ad_calls = 2
    /\ ZeroInput
    /\ Len(stream) \div (IF num_channels = 2 THEN 30 ELSE 15) = 2
    /\ Len(output) > 0
    /\ shift_left < 20

-----------------------------------------------------------------------------
(* TrackData.tr_open: properties *)

\* C10: with night and weather requested and the night-only and base files
\* present but no night+weather file, tr_open ends by returning the
\* night-only file: it does not raise, and while the night-only file exists
\* it never returns the base file.
C10_NightFallback ==
    /\ (tr_night /\ tr_weather /\ "N" \in tr_files /\ "" \in tr_files
          /\ "NW" \notin tr_files) =>
          /\ tr_pc # "raised"
          /\ tr_pc = "returned" => tr_result = "N"
          /\ tr_pc = "loop" => tr_idx <= 1
    /\ (tr_night /\ tr_weather /\ "N" \in tr_files /\ tr_pc = "returned") =>
          tr_result # ""

C10_Witness ==
    /\ tr_night /\ tr_weather
    /\ tr_files = {"N", ""}
    /\ tr_pc = "returned"
    /\ tr_result = "N"
    /\ tr_idx = 1


\* the precedence list of C11
ClaimedOptions(night, weather) ==
    IF weather /\ night THEN <<"NW", "N", "W", "">>
    ELSE IF night THEN <<"N", "">>
    ELSE IF weather THEN <<"W", "">>
    ELSE <<"">>

\* the first variant of a list whose file exists ("none" when there is none)
RECURSIVE FirstPresent(_)
FirstPresent(options) ==
    IF options = <<>> THEN "none"
    ELSE IF FileFound(Head(options)) THEN Head(options)
    ELSE FirstPresent(Tail(options))

\* C11: tr_open returns the first existing file in the order night+weather,
\* night-only, weather-only, base when night and weather are requested
\* (night, base for night only; weather, base for weather only; base
\* otherwise), and raises FileNotFoundError only when no file of that list
\* exists.
C11_FixedPrecedence ==
    /\ tr_pc = "returned" =>
          tr_result = FirstPresent(ClaimedOptions(tr_night, tr_weather))
    /\ tr_pc = "raised" =>
          FirstPresent(ClaimedOptions(tr_night, tr_weather)) = "none"


-----------------------------------------------------------------------------
(* unique_named_resources: properties *)

\* C12: the i-th resource yielded is the i-th input resource, renamed to
\* name-k when k > 0 earlier input resources have its name and left as it is
\* when k = 0; every other field is kept, and nothing but the names of the
\* earlier resources decides k.
C12_UniqueNamesInOrder ==
    /\ Len(ur_output) <= Len(ur_input)
    /\ \A i \in 1..Len(ur_output) :
          LET r == ur_input[i]
              k == Cardinality({ j \in 1..(i - 1) : ur_input[j].name = r.name })
          IN ur_output[i] =
                [ r EXCEPT !.name = IF k = 0 THEN r.name
                                    ELSE r.name \o "-" \o ToString(k) ]

C12_Witness ==
    /\ Len(ur_input) = 3
    /\ Len(ur_output) = 3
    /\ ur_input[1] = ur_input[3]
    /\ ur_input[1].name = "b"
    /\ ur_input[2].name = "b"
    /\ ur_input[2].image # ur_input[1].image
    /\ ur_output[1].name = "b"
    /\ ur_output[2].name = "b-1"
    /\ ur_output[3].name = "b-2"


\* C27: the names of the resources unique_named_resources yields are
\* pairwise distinct, also when an input name is another input name followed
\* by -k, so that no two exported files <name>.png are the same file.
C27_OutputNamesDistinct ==
    \A i \in 1..Len(ur_output) : \A j \in 1..Len(ur_output) :
        i # j => ur_output[i].name # ur_output[j].name

-----------------------------------------------------------------------------
(* TrackData._raise_vertex: properties *)

\* the squared distance in space and the squared distance in the horizontal
\* plane (x, z) between the vertex and the i-th sample
SpaceDistance(i) ==
    LET l == rv_heights[i][1]
        v == rv_vertex.location
    IN (v.x - l.x) * (v.x - l.x) + (v.z - l.z) * (v.z - l.z)
          + (v.y - l.y) * (v.y - l.y)

PlaneDistance(i) ==
    LET l == rv_heights[i][1]
        v == rv_vertex.location
    IN (v.x - l.x) * (v.x - l.x) + (v.z - l.z) * (v.z - l.z)

\* the height by which the returned vertex lies above the argument
AppliedHeight == rv_result.location.y - rv_vertex.location.y

\* S is a set of (up to) 3 samples none of which is farther than a sample
\* left out, and h is the lowest height in S
LowestOfNearest(S, h, Distance(_)) ==
    /\ Cardinality(S) = (IF Len(rv_heights) < 3 THEN Len(rv_heights) ELSE 3)
    /\ \A i \in S : \A j \in (1..Len(rv_heights)) \ S :
          Distance(i) <= Distance(j)
    /\ \E i \in S : rv_heights[i][2] = h
    /\ \A i \in S : rv_heights[i][2] >= h

\* C13: the returned vertex lies above the argument by the minimum height of
\* the 3 samples nearest to the vertex (nearest in space, ties in any order);
\* x, z, normal and colour are those of the argument, and the argument is
\* still the vertex that was passed.
C13_MinimumOfThreeNearest ==
    /\ rv_pc # "idle" => rv_vertex \in VertexInputs
    /\ rv_pc = "returned" =>
          /\ rv_result.location.x = rv_vertex.location.x
          /\ rv_result.location.z = rv_vertex.location.z
          /\ rv_result.normal = rv_vertex.normal
          /\ rv_result.color = rv_vertex.color
          /\ \E S \in SUBSET (1..Len(rv_heights)) :
                LowestOfNearest(S, AppliedHeight, SpaceDistance)

\* the nearest sample is higher than another of the 3 nearest
C13_Witness ==
    /\ rv_pc = "returned"
    /\ rv_vertex.location = Vec(0, 0, 0)
    /\ rv_heights = << <<Vec(2, 0, 0), 1>>, <<Vec(0, 0, 3), 1>>,
                       <<Vec(1, 0, 0), 2>>, <<Vec(0, 2, 0), 2>> >>
    /\ rv_result.location = Vec(0, 0, 1)

\* C14: the 3 nearest samples are the nearest in the horizontal plane: the
\* height applied is the minimum height of 3 samples none of which is
\* farther from the vertex in the (x, z) plane than a sample left out.
C14_HorizontalPlaneOrdering ==
    rv_pc = "returned" =>
        \E S \in SUBSET (1..Len(rv_heights)) :
            LowestOfNearest(S, AppliedHeight, PlaneDistance)


-----------------------------------------------------------------------------
(* FrdData: properties *)

\* the corners 0..3 of the canonical UV set
CanonicalUv ==
    [i \in 0..3 |-> IF i = 0 THEN [u |-> 1, v |-> 1]
                    ELSE IF i = 1 THEN [u |-> 0, v |-> 1]
                    ELSE IF i = 2 THEN [u |-> 0, v |-> 0]
                    ELSE [u |-> 1, v |-> 0]]

SwapU(c, a, b) == [c EXCEPT ![a].u = c[b].u, ![b].u = c[a].u]

SwapV(c, a, b) == [c EXCEPT ![a].v = c[b].v, ![b].v = c[a].v]

\* the reference of C15: mirror_y, mirror_x, invert, rotate, in this order
ClaimedUv(polygon) ==
    LET c1 == IF polygon.mirror_y
              THEN SwapV(SwapV(CanonicalUv, 1, 2), 0, 3) ELSE CanonicalUv
        c2 == IF polygon.mirror_x THEN SwapU(SwapU(c1, 0, 1), 2, 3) ELSE c1
        c3 == IF polygon.invert
              THEN [i \in 0..3 |-> [u |-> 1 - c2[i].u, v |-> 1 - c2[i].v]]
              ELSE c2
        c4 == IF polygon.rotate
              THEN [i \in 0..3 |->
                       IF i \in {0, 2} THEN [c3[i] EXCEPT !.v = 1 - c3[i].v]
                       ELSE [c3[i] EXCEPT !.u = 1 - c3[i].u]]
              ELSE c3
    IN <<c4[0], c4[1], c4[2], c4[3]>>

MirrorXOnly(polygon) ==
    polygon.mirror_x /\ ~polygon.mirror_y /\ ~polygon.invert /\ ~polygon.rotate

MirrorXOnlyUv ==
    << [u |-> 0, v |-> 1], [u |-> 1, v |-> 1],
       [u |-> 1, v |-> 0], [u |-> 0, v |-> 0] >>

Range(s) == { s[i] : i \in 1..Len(s) }

\* the polygons of the chunks of the file's i-th segment, as <<chunk, polygon>>
ChunkPolygons(i) ==
    LET chunks == frd.segment_data[i].chunks
    IN UNION { { <<c, chunks[c].polygons[k]>> :
                 k \in 1..Len(chunks[c].polygons) } : c \in 1..Len(chunks) }

\* C15: for every polygon of a segment that was built, _texture_flags_to_uv
\* gives the reference (the canonical set with mirror_y, mirror_x, invert and
\* rotate applied in this order, each when its flag is set): 4 distinct
\* corners of the unit square, [(0,1),(1,1),(1,0),(0,0)] for mirror_x alone;
\* and these are the UVs of the polygon built from a quad.
C15_UvFromFlags ==
    \A i \in 1..Len(frd_out) : \A cp \in ChunkPolygons(i) :
        LET polygon == cp[2]
            uv == TextureFlagsToUv(polygon)
        IN /\ uv = ClaimedUv(polygon)
           /\ Cardinality(Range(uv)) = 4
           /\ \A k \in 1..4 : uv[k].u \in {0, 1} /\ uv[k].v \in {0, 1}
           /\ MirrorXOnly(polygon) => uv = MirrorXOnlyUv
           /\ (HighPolyChunksMask[cp[1]] /\ polygon.face = QuadFace) =>
                 \E q \in Range(frd_out[i].mesh.polygons) :
                     /\ q.material = polygon.texture_id
                     /\ q.uv = ClaimedUv(polygon)

C15_Witness ==
    /\ Len(frd_out) = 1
    /\ \E cp \in ChunkPolygons(1) : MirrorXOnly(cp[2])
    /\ Len(frd_out[1].mesh.polygons) = 1
    /\ frd_out[1].mesh.polygons[1].uv = MirrorXOnlyUv

\* the polygons of the chunks 4..10 (the 5th to the 11th) of a segment
HighPolygons(segment) ==
    Flatten([c \in 1..7 |-> segment.chunks[c + 4].polygons])

\* one quad polygon that is not a lane in the chunks 4..10, nothing driveable
MinimalSegment(segment) ==
    /\ segment.driveable_polygons = <<>>
    /\ Len(HighPolygons(segment)) = 1
    /\ Cardinality(Range(HighPolygons(segment)[1].face)) = 4
    /\ ~HighPolygons(segment)[1].lane

C17_LanesChunkExcluded ==
    \A i \in 1..Len(frd_out) : \A cp \in ChunkPolygons(i) :
        cp[1] \in {1, 2, 3, 4, 7} =>
            MakePolygon(cp[2], FALSE) \notin Range(frd_out[i].mesh.polygons)

\* C17 (amended): the polygons of the mesh are those of the chunks 4..10, in
\* chunk order, the road lanes chunk (6) among them; no polygon of the
\* low-resolution and medium-resolution chunks (0..3) is in the mesh.
C17_MaskedChunksOnly ==
    \A i \in 1..Len(frd_out) :
        /\ frd_out[i].mesh.polygons =
              [k \in 1..Len(HighPolygons(frd.segment_data[i])) |->
                  MakePolygon(HighPolygons(frd.segment_data[i])[k], FALSE)]
        /\ \A cp \in ChunkPolygons(i) :
              cp[1] \in 1..4 =>
                  MakePolygon(cp[2], FALSE)
                      \notin Range(frd_out[i].mesh.polygons)

C17_Witness ==
    /\ Len(frd_out) = 1
    /\ \A c \in 1..NumChunks : frd.segment_data[1].chunks[c].polygons # <<>>
    /\ \E q \in Range(frd_out[1].mesh.polygons) : q.material = 6
    /\ \A q \in Range(frd_out[1].mesh.polygons) : q.material \notin 0..3

\* the places of a source face that hold the first occurrence of their index
FirstOccurrences(face) ==
    { k \in 1..Len(face) : \A j \in 1..(k - 1) : face[j] # face[k] }

\* the k-th smallest element of a set of integers
NthOf(S, k) == CHOOSE x \in S : Cardinality({ y \in S : y < x }) = k - 1

\* C26: the Polygon _make_polygon builds from a source face of 4 indices has
\* a face of 3 or 4 pairwise distinct indices, the first occurrence of every
\* index of the source face in source order, and a uv tuple of the same
\* length whose k-th entry is the UV of the source corner of the k-th index
\* kept.
C26_QuadOrTriangleWithUv ==
    \A i \in 1..Len(frd_out) :
        LET source == HighPolygons(frd.segment_data[i])
            built  == frd_out[i].mesh.polygons
        IN /\ Len(built) = Len(source)
           /\ \A n \in 1..Len(built) :
                 LET kept == FirstOccurrences(source[n].face)
                     face == built[n].face
                     uv   == built[n].uv
                 IN /\ Len(source[n].face) = 4
                    /\ Len(face) \in {3, 4}
                    /\ \A a \in 1..Len(face) : \A b \in 1..Len(face) :
                          a # b => face[a] # face[b]
                    /\ Len(face) = Cardinality(kept)
                    /\ Len(uv) = Len(face)
                    /\ \A k \in 1..Len(face) :
                          /\ face[k] = source[n].face[NthOf(kept, k)]
                          /\ uv[k] = TextureFlagsToUv(source[n])
                                        [NthOf(kept, k)]

\* the number of places up to the k-th driveable polygon where the polygon
\* index does not follow the one before: the run the k-th polygon is in
RunOf(driveable_polygons, k) ==
    Cardinality({ j \in 2..k : driveable_polygons[j - 1].polygon + 1
                                  # driveable_polygons[j].polygon })

\* C18: the collision meshes of a segment are the groups of its driveable
\* polygons by run of consecutive polygon indices and road effect: there is
\* one mesh for every (run, road effect) that occurs, and every driveable
\* polygon is in one mesh.
C18_ContiguousRuns ==
    \A i \in 1..Len(frd_out) :
        LET driveable_polygons == frd.segment_data[i].driveable_polygons
            meshes == frd_out[i].collision_meshes
        IN /\ Len(meshes) =
                 Cardinality({ <<RunOf(driveable_polygons, k),
                                 driveable_polygons[k].road_effect>> :
                               k \in 1..Len(driveable_polygons) })
           /\ Len(Flatten([m \in 1..Len(meshes) |-> meshes[m].polygons]))
                 = Len(driveable_polygons)


-----------------------------------------------------------------------------
(* VivData.engine_audio: properties *)

\* the patch numbers of the two tables (-1 marks an unused entry)
TablePatches ==
    (Range(viv.ltb.patchnum) \cup Range(viv.ctb.patchnum)) \ {-1}

\* the elements of a set of integers in ascending order
RECURSIVE Ascending(_)
Ascending(S) ==
    IF S = {} THEN <<>>
    ELSE LET m == CHOOSE x \in S : \A y \in S : x <= y
         IN <<m>> \o Ascending(S \ {m})

\* the entries of a table body for patch number p, in table order
RECURSIVE EntriesOf(_, _, _, _)
EntriesOf(body, table_type, p, i) ==
    IF i > Len(body.patchnum) THEN <<>>
    ELSE (IF body.patchnum[i] = p
          THEN <<[ volume |-> body.volume[i], pitch |-> body.pitch[i],
                   table_type |-> table_type ]>>
          ELSE <<>>)
            \o EntriesOf(body, table_type, p, i + 1)

\* the EngineAudio of patch number p: its load entries, then its coast entries
ExpectedAudio(p) ==
    [ streams  |-> viv.samples[p],
      tables   |-> EntriesOf(viv.ltb, "LOAD", p, 1)
                      \o EntriesOf(viv.ctb, "COAST", p, 1),
      is_rear  |-> (p > 64),
      patchnum |-> p ]

\* C19 (as stated): the merge never raises, and what it has yielded when it
\* ends is one EngineAudio for every patch number that is in a table and in
\* the sample set, in ascending order, load entries before coast entries.
C19_AbsentEntriesDropped ==
    /\ mt_pc # "raised"
    /\ (mt_pc = "done" /\ viv.present) =>
          LET wanted == Ascending(TablePatches \cap DOMAIN viv.samples)
          IN /\ Len(mt_out) = Len(wanted)
             /\ \A i \in 1..Len(wanted) : mt_out[i] = ExpectedAudio(wanted[i])

\* C19 (amended): the patch numbers of the tables are taken in ascending
\* order, each yielding one EngineAudio with its load entries before its
\* coast entries, until the first one that is not in the sample set, where
\* KeyError is raised; the merge ends without error exactly when every patch
\* number of the tables is in the sample set; a sample in neither table
\* yields nothing.
C19_MergeUntilMissingPatch ==
    mt_pc \in {"iter", "done", "raised"} =>
        LET wanted == Ascending(TablePatches)
        IN /\ Len(mt_out) <= Len(wanted)
           /\ \A i \in 1..Len(mt_out) :
                 /\ wanted[i] \in DOMAIN viv.samples
                 /\ mt_out[i] = ExpectedAudio(wanted[i])
           /\ (mt_pc = "done" /\ viv.present) => Len(mt_out) = Len(wanted)
           /\ ~viv.present => mt_out = <<>> /\ mt_pc = "done"
           /\ mt_pc = "raised" =>
                 /\ mt_error = "KeyError"
                 /\ wanted[Len(mt_out) + 1] \notin DOMAIN viv.samples

\* load and coast entries of one patch merged, a sample without a table left
\* out, and the KeyError of the next patch number, which has no sample
C19_Witness ==
    /\ mt_pc = "raised"
    /\ mt_error = "KeyError"
    /\ DOMAIN viv.samples = {1, 2}
    /\ viv.ltb.patchnum = <<65, 1>>
    /\ viv.ctb.patchnum = <<1, -1>>
    /\ Len(mt_out) = 1
    /\ mt_out[1].patchnum = 1
    /\ Len(mt_out[1].tables) = 2
    /\ mt_out[1].tables[1].table_type = "LOAD"
    /\ mt_out[1].tables[2].table_type = "COAST"

-----------------------------------------------------------------------------
(* BnkAudioStream: properties *)

\* the size C20 gives for num_samples samples per channel: two
\* samples in a data byte, one control byte for every 14 data bytes
ClaimedSize(num_samples, channels) ==
    LET compressed_samples == (num_samples * channels) \div 2
        headers == (compressed_samples + 13) \div 14
    IN compressed_samples + headers

\* C20: for compression 7 and 16-bit samples the bytes sliced are
\* compressed_samples + headers, which for a whole number of frames is the
\* size of the frames that decode to num_samples samples per channel.
C20_SliceIsWholeFrames ==
    (/\ bnk_pc = "read"
     /\ TlvOnly(bnk_header.compression_type, 0) = 7
     /\ TlvOnly(bnk_header.bytes_per_sample, 2) = 2) =>
        LET n == bnk_header.num_samples[1]
            channels == TlvOnly(bnk_header.channels, 1)
        IN /\ bnk_samples = ClaimedSize(n, channels)
           /\ n % 28 = 0 => bnk_samples = (n \div 28) * FrameSize(channels)


-----------------------------------------------------------------------------
(* FrdData.objects and TrackData.objects: properties *)

SegmentOfHeader(obj) ==
    IF obj.scope = "segment" THEN <<ob_frd.segment>> ELSE <<>>

DestroyActions ==
    << [ action |-> "DESTROY_LOW_SPEED", animation |-> "TR02.CAN" ],
       [ action |-> "DESTROY_HIGH_SPEED", animation |-> "TR03.CAN" ] >>

\* C21: the object TrackData._finalize_object returns has the original
\* actions, in order, followed by the DESTROY_LOW_SPEED and
\* DESTROY_HIGH_SPEED animations of TR02.CAN and TR03.CAN exactly when its
\* collision_type is destructible, and the original actions otherwise; mesh,
\* location, transform and collision_type are those of the input, and the
\* input object still is what FrdData._make_object made.
C21_DestroyActionsIffDestructible ==
    /\ Len(ob_made) = Len(ob_out)
    /\ \A k \in 1..Len(ob_out) :
         LET made == ob_made[k]
             out  == ob_out[k]
         IN  /\ made = MakeObject(SegmentOfHeader(ob_frd.objects[k]),
                                  ob_frd.objects[k])
             /\ out.mesh = made.mesh
             /\ out.location = made.location
             /\ out.transform = made.transform
             /\ out.collision_type = made.collision_type
             /\ out.actions = IF made.collision_type = "destructible"
                              THEN made.actions \o DestroyActions
                              ELSE made.actions

\* a destructible object and an animated object have both been finalized
C21_Witness ==
    /\ ob_pc = "stopped"
    /\ \E k \in 1..Len(ob_out) :
         /\ ob_out[k].collision_type = "destructible"
         /\ ob_out[k].actions = DestroyActions

\* the collision type C24 gives: the attribute's type for an index within
\* 0..len-1, none for every other index, object type and for no segment
ClaimedCollisionType(segment, obj) ==
    IF obj.type \notin {"normal", "billboard"} \/ segment = <<>>
    THEN "none"
    ELSE IF 0 <= obj.attribute_index
            /\ obj.attribute_index < Len(segment[1].object_attributes)
         THEN segment[1].object_attributes[obj.attribute_index + 1]
                  .collision_type
         ELSE "none"

\* C24: FrdData._get_object_collision_type returns, for a normal or
\* billboard object in a segment, the collision_type of
\* segment.object_attributes[attribute_index] when the index is within
\* 0..len-1 and none for every index outside; none for every other object
\* type and for global objects.
C24_NoneOutsideBounds ==
    \A k \in 1..Len(ob_made) :
        ob_made[k].collision_type =
            ClaimedCollisionType(SegmentOfHeader(ob_frd.objects[k]),
                                 ob_frd.objects[k])


-----------------------------------------------------------------------------
(* FshData._make_resource: properties *)

CodesOf(resource) ==
    { resource.body.blocks[i].code : i \in 1..Len(resource.body.blocks) }

BlocksWithCode(resource, code) ==
    { i \in 1..Len(resource.body.blocks) :
          resource.body.blocks[i].code = code }

\* one bitmap block, and one palette that has every index when it is 8-bit
DecodableBitmap(resource) ==
    LET blocks == resource.body.blocks
        bitmaps == { i \in 1..Len(blocks) :
                       blocks[i].code \in {"bitmap8", "bitmap32",
                                           "bitmap16", "bitmap16_alpha"} }
    IN /\ Cardinality(bitmaps) = 1
       /\ \A b \in bitmaps : blocks[b].code = "bitmap8" =>
             /\ Cardinality(BlocksWithCode(resource, "palette")) = 1
             /\ \A p \in BlocksWithCode(resource, "palette") :
                   \A k \in 1..Len(blocks[b].data) :
                       blocks[b].data[k] < Len(blocks[p].data)

\* C23: _make_resource fails with an error and produces no Resource for a
\* resource whose bitmap block is 8-bit palette-indexed and that has no
\* palette block; for a resource with no text block (and a bitmap that can
\* be decoded) it succeeds with mirrored and nonmirrored False and a blend
\* mode that is not additive.
C23_PaletteRequiredTextOptional ==
    fsh_pc \in {"returned", "raised"} =>
        /\ ("bitmap8" \in CodesOf(fsh_resource)
               /\ "palette" \notin CodesOf(fsh_resource)) =>
              /\ fsh_pc = "raised"
              /\ fsh_error # ""
              /\ fsh_result = <<>>
        /\ ("text" \notin CodesOf(fsh_resource)
               /\ DecodableBitmap(fsh_resource)) =>
              /\ fsh_pc = "returned"
              /\ Len(fsh_result) = 1
              /\ fsh_result[1].mirrored = FALSE
              /\ fsh_result[1].nonmirrored = FALSE
              /\ fsh_result[1].blend_mode # "ADDITIVE"

\* an 8-bit bitmap with a text block and no palette has failed
C23_Witness ==
    /\ fsh_pc = "raised"
    /\ fsh_error = "ValueError"
    /\ fsh_result = <<>>
    /\ Len(fsh_resource.body.blocks) = 2
    /\ fsh_resource.body.blocks[1].code = "bitmap8"
    /\ fsh_resource.body.blocks[2].code = "text"


-----------------------------------------------------------------------------
(* TrackData lookup tables: properties *)

SoundBank == IF td_files.bank = <<>> THEN {} ELSE DictOf(td_files.bank[1])

\* C22: a join that cannot be resolved ends in a lookup error (KeyError):
\* get_polygon_material for a material index that is not in the resource
\* table or a lane index that is not in the SFX pool, lights for a stub whose
\* glow ID is not in the glow table, and audio_sources for a sound stub whose
\* patch number is not in the bank.
C22_UnresolvedJoinsRaise ==
    td_last # <<>> =>
        /\ (/\ td_last.op = "get_polygon_material"
            /\ ~td_last.lane
            /\ ~DictHas(resources, td_last.key)) =>
               td_last.outcome = "KeyError"
        /\ (/\ td_last.op = "get_polygon_material"
            /\ td_last.lane
            /\ ~DictHas(sfx_resources, "lin" \o ToString(td_last.key))) =>
               td_last.outcome = "KeyError"
        /\ (/\ td_last.op = "lights"
            /\ \E i \in 1..Len(td_files.light_dummies) :
                  ~DictHas(light_glows, td_files.light_dummies[i].glow_id)) =>
               td_last.outcome = "KeyError"
        /\ (/\ td_last.op = "audio_sources"
            /\ td_files.bank # <<>>
            /\ \E i \in 1..Len(td_files.sound_dummies) :
                  ~DictHas(SoundBank, td_files.sound_dummies[i].patch)) =>
               td_last.outcome = "KeyError"

\* C25: the resource tables are built by one run of _init_resources, at the
\* first get_polygon_material, and the glow table by the first lights; they
\* are never built again and keep their values, also when the filtered
\* atlas or the glow table is empty.
C25_TablesBuiltOnce ==
    /\ td_inits <= 1
    /\ td_inits = 0 => resources = {} /\ sfx_resources = {}
    /\ td_inits >= 1 =>
          /\ resources = InitResourcesTable(td_files)
          /\ sfx_resources = InitSfxResourcesTable(td_files)
    /\ light_glows \in {{}, GlowTable(td_files)}


-----------------------------------------------------------------------------
(* remove_unused_vertices and merge_mesh: properties *)

\* the polygon is the other one but for its face
SameButFace(p, q) == p = [q EXCEPT !.face = p.face]

\* what C30 says of remove_unused_vertices(ms_a) = ms_result
RemovedUnused ==
    /\ Len(ms_result.polygons) = Len(ms_a.polygons)
    /\ ms_result.collision_effect = ms_a.collision_effect
    /\ \A n \in 1..Len(ms_a.polygons) :
          LET p == ms_result.polygons[n]
              q == ms_a.polygons[n]
          IN /\ SameButFace(p, q)
             /\ Len(p.face) = Len(q.face)
             /\ \A i \in 1..Len(p.face) :
                   /\ p.face[i] \in 0..(Len(ms_result.vertices) - 1)
                   /\ ms_result.vertices[p.face[i] + 1]
                         = ms_a.vertices[q.face[i] + 1]
    /\ \A k \in 1..Len(ms_result.vertices) :
          \E n \in 1..Len(ms_result.polygons) :
              \E i \in 1..Len(ms_result.polygons[n].face) :
                  ms_result.polygons[n].face[i] = k - 1

\* what C30 says of merge_mesh(ms_a, ms_b) = ms_result
Merged ==
    /\ ms_result.vertices = ms_a.vertices \o ms_b.vertices
    /\ Len(ms_result.polygons) = Len(ms_a.polygons) + Len(ms_b.polygons)
    /\ \A n \in 1..Len(ms_a.polygons) :
          ms_result.polygons[n] = ms_a.polygons[n]
    /\ \A n \in 1..Len(ms_b.polygons) :
          LET p == ms_result.polygons[Len(ms_a.polygons) + n]
              q == ms_b.polygons[n]
          IN /\ SameButFace(p, q)
             /\ Len(p.face) = Len(q.face)
             /\ \A i \in 1..Len(p.face) :
                   p.face[i] = q.face[i] + Len(ms_a.vertices)

\* C30: remove_unused_vertices returns the polygons of the mesh in their
\* order, every face position referring to a vertex equal to the one it
\* referred to, every index within the new vertex list and every vertex of
\* that list referred to; merge_mesh(a, b) returns the vertices of a followed
\* by those of b and the polygons of a, unchanged, followed by those of b
\* with every face index raised by len(a.vertices); neither call changes
\* its arguments.
C30_MeshOperations ==
    [][ /\ ms_a' = ms_a
        /\ ms_b' = ms_b
        /\ ms_pc' = "removed" => RemovedUnused'
        /\ ms_pc' = "merged" => Merged' ]_vars

\* two meshes with polygons merged, the first with vertices no face uses
C30_Witness ==
    /\ ms_pc = "merged"
    /\ Len(ms_a.vertices) = 3
    /\ Len(ms_a.polygons) = 2
    /\ Len(ms_b.polygons) = 2
    /\ ms_result.polygons[3].face = <<3, 4, 3>>
    /\ ms_result.polygons[4].face = <<4, 4, 3, 3>>


-----------------------------------------------------------------------------
(* TrackData.track_segments: properties *)

\* the collision polygons FrdData._make_collision_polygon makes of the
\* driveable polygons of the file, each with the driveable polygon and the
\* face it was made of
SourcePolygons ==
    UNION { { [ polygon   |-> MakeCollisionPolygon(
                                  ws_frd.segment_data[i],
                                  ws_frd.segment_data[i].driveable_polygons[k]),
                driveable |-> ws_frd.segment_data[i].driveable_polygons[k],
                face      |-> ws_frd.segment_data[i].chunks[5].polygons[
                                  ws_frd.segment_data[i]
                                      .driveable_polygons[k].polygon + 1].face ] :
              k \in 1..Len(ws_frd.segment_data[i].driveable_polygons) } :
            i \in 1..Len(ws_frd.segment_data) }

\* the polygons among them _make_polygon_wall hands to _select_wall_edge_idx
WalledSourcePolygons ==
    { s \in SourcePolygons :
        s.polygon.has_wall_collision /\ s.polygon.edges # <<>> }

TaggedInSource(driveable, k) ==
    CASE k = 0 -> driveable.front_edge
      [] k = 1 -> driveable.left_edge
      [] k = 2 -> driveable.back_edge
      [] k = 3 -> driveable.right_edge

\* the pair holds the two ends of a side of the source face that the
\* driveable polygon tags
EndsOfTaggedSide(s, pair) ==
    \E k \in 0..3 :
        /\ TaggedInSource(s.driveable, k)
        /\ {pair[1], pair[2]} = {s.face[k + 1], s.face[SideEnd(k) + 1]}

\* C28: track_segments never ends in the TypeError of a segment without a
\* wall, it stops only after one finalized segment for every segment of the
\* file, and the collision meshes of every finalized segment are the floor
\* meshes of the segment, unchanged and in order, followed by one wall mesh;
\* nothing else of the segment differs.
C28_FinalizesEverySegment ==
    /\ ws_error # "TypeError"
    /\ ws_pc = "stopped" => Len(ws_out) = Len(ws_frd.segment_data)
    /\ \A j \in 1..Len(ws_out) :
          /\ Len(ws_out[j].collision_meshes)
                = Len(ws_segments[j].collision_meshes) + 1
          /\ Take(ws_out[j].collision_meshes,
                  Len(ws_segments[j].collision_meshes))
                = ws_segments[j].collision_meshes
          /\ [ ws_out[j] EXCEPT !.collision_meshes = <<>> ]
                = [ ws_segments[j] EXCEPT !.collision_meshes = <<>> ]

\* C29: _select_wall_edge_idx returns for every collision polygon made of a
\* driveable polygon, faces of 3 indices included; each pair it returns has
\* two different indices, the two ends of a tagged side of the source face;
\* and every polygon of a wall mesh is (a, b, raised b, raised a).
C29_WallEdgesOfTaggedSides ==
    /\ \A s \in WalledSourcePolygons :
          /\ ~SelectWallEdgeIdxRaises(s.polygon)
          /\ \A i \in 1..Len(SelectWallEdgeIdx(s.polygon)) :
                /\ SelectWallEdgeIdx(s.polygon)[i][1]
                      # SelectWallEdgeIdx(s.polygon)[i][2]
                /\ EndsOfTaggedSide(s, SelectWallEdgeIdx(s.polygon)[i])
    /\ \A j \in 1..Len(ws_out) :
          LET wall == ws_out[j].collision_meshes[
                          Len(ws_out[j].collision_meshes)]
              heights == WaypointHeightPairs(ws_segments, ws_heights, j)
          IN \A i \in 1..Len(wall.polygons) :
                /\ wall.polygons[i].face[3]
                      = RaisedVertex(heights, wall.polygons[i].face[2])
                /\ wall.polygons[i].face[4]
                      = RaisedVertex(heights, wall.polygons[i].face[1])

=============================================================================
